---- MODULE Spec2Model ----
(***************************************************************************)
(* A model of broomstick (src/broomstick.py): the interactive terminal UI  *)
(* BroomstickTUI with its delete and uninstall batches, the package        *)
(* analysis of PackageAnalyzer, and the discovery functions find_venvs and *)
(* find_python_interpreters.                                               *)
(*                                                                         *)
(* Python strings are modelled as sequences of one-character strings, so   *)
(* that str.lower(), str.startswith() and the substring test `a in b` are  *)
(* computed character by character as the code computes them.              *)
(***************************************************************************)
EXTENDS Integers, Sequences, FiniteSets, TLC

VARIABLES
    \* ---- BroomstickTUI fields (src/broomstick.py:522-535)
    mode, current_view, selected_venv, cursor, scroll_offset, selected_items,
    breadcrumb, search_mode, search_query, filtered_items, venvs,
    \* ---- VirtualEnv fields that change after construction (lines 286-288)
    packages, packages_loaded,
    \* ---- position of the event loop of run() (lines 547-607)
    pc,
    \* ---- the world outside the process: directories and installed packages
    fs_dirs, disk_packages,
    \* ---- what the last handled event did: the answer typed at its
    \*      confirmation prompt, its calls of shutil.rmtree / pip uninstall,
    \*      the selection its batch ran over, the "N/M" it reported and the
    \*      numbers its progress line showed
    response, rmtree_calls, uninstall_calls, batch_selected, batch_total,
    batch_count, batch_progress,
    \* ---- PackageAnalyzer (lines 468-501)
    an_venvs, an_phase, package_map, an_duplicates, an_conflicts,
    \* ---- find_venvs / find_python_interpreters (lines 198-250, 393-462)
    dv_links, dv_marked, dv_max_depth, dv_scan_path, dv_mdfind, dv_path_env,
    dv_fault, dv_phase, dv_venvs, dv_interpreters, dv_listed,
    \* ---- find_envs of pyenvhunter.py (lines 74-144)
    dv_envs,
    \* ---- one VirtualEnv object under calls of its probes (lines 117-128,
    \*      291-366): its fields, and the last call: its `force` argument,
    \*      whether it ran an external process, and how it ended
    pr_has_python, pr_version, pr_packages, pr_loaded, pr_op, pr_force,
    pr_spawned, pr_outcome, pr_raised, pr_ret, pr_calls,
    \* ---- one path under the two _detect_info classifications (lines
    \*      167-181, 304-322): the path, which class was built, its manager
    cl_path, cl_kind, cl_manager,
    \* ---- one `scan` run of either program writing its JSON export
    \*      (broomstick.py:1435-1459, pyenvhunter.py:208-224, 267-281)
    ex_args, ex_n, ex_completed, ex_probe, ex_results,
    ex_written, ex_phase,
    \* ---- one `clean` run of either program (broomstick.py:1567-1608,
    \*      pyenvhunter.py:310-334): the command line, the file system, which
    \*      program ran, the answer typed at its prompt and how it ended
    cn_argv, cn_fs, cn_program, cn_answer, cn_out

tui_fields == <<mode, current_view, selected_venv, cursor, scroll_offset,
                selected_items, breadcrumb, search_mode, search_query,
                filtered_items, venvs>>
env_fields == <<packages, packages_loaded>>
world == <<fs_dirs, disk_packages>>
effects == <<response, rmtree_calls, uninstall_calls, batch_selected, batch_total,
             batch_count, batch_progress>>
tui_vars == <<tui_fields, env_fields, world, effects, pc>>
an_vars == <<an_venvs, an_phase, package_map, an_duplicates, an_conflicts>>
dv_vars == <<dv_links, dv_marked, dv_max_depth, dv_scan_path, dv_mdfind,
             dv_path_env, dv_fault, dv_phase, dv_venvs, dv_interpreters, dv_listed,
             dv_envs>>
pr_vars == <<pr_has_python, pr_version, pr_packages, pr_loaded, pr_op, pr_force,
             pr_spawned, pr_outcome, pr_raised, pr_ret, pr_calls>>
\* the variables of the command-line entry points and of single objects
cl_vars == <<cl_path, cl_kind, cl_manager>>
ex_vars == <<ex_args, ex_n, ex_completed, ex_probe, ex_results,
             ex_written, ex_phase>>
cn_vars == <<cn_argv, cn_fs, cn_program, cn_answer, cn_out>>
cli_vars == <<pr_vars, cl_vars, ex_vars, cn_vars>>
\* what the actions of one group leave alone
pr_rest == <<tui_vars, an_vars, dv_vars, cl_vars, ex_vars, cn_vars>>
cl_rest == <<tui_vars, an_vars, dv_vars, pr_vars, ex_vars, cn_vars>>
ex_rest == <<tui_vars, an_vars, dv_vars, pr_vars, cl_vars, cn_vars>>
cn_rest == <<tui_vars, an_vars, dv_vars, pr_vars, cl_vars, ex_vars>>
vars == <<tui_vars, an_vars, dv_vars, cli_vars>>

(***************************************************************************)
(* Bounds of the model.                                                    *)
(***************************************************************************)
\* number of environments find_venvs handed to the TUI
MaxVenvs == 3
\* rows of the terminal, stdscr.getmaxyx()[0]
ScreenHeight == 12
\* on a list without items the code puts no bound on the cursor: the DOWN
\* key is not modelled beyond this cursor value there
MaxCursor == 1

(***************************************************************************)
(* Strings                                                                 *)
(***************************************************************************)
\* `self.selected_venv = None`: no environment is bound
NoVenv == 0

Max(a, b) == IF a > b THEN a ELSE b
Min(a, b) == IF a < b THEN a ELSE b

\* str.lower() on one character
LowerChar(c) ==
    CASE c = "A" -> "a" [] c = "B" -> "b" [] c = "C" -> "c" [] c = "D" -> "d"
      [] c = "E" -> "e" [] c = "F" -> "f" [] c = "G" -> "g" [] c = "H" -> "h"
      [] c = "I" -> "i" [] c = "J" -> "j" [] c = "K" -> "k" [] c = "L" -> "l"
      [] c = "M" -> "m" [] c = "N" -> "n" [] c = "O" -> "o" [] c = "P" -> "p"
      [] c = "Q" -> "q" [] c = "R" -> "r" [] c = "S" -> "s" [] c = "T" -> "t"
      [] c = "U" -> "u" [] c = "V" -> "v" [] c = "W" -> "w" [] c = "X" -> "x"
      [] c = "Y" -> "y" [] c = "Z" -> "z" [] OTHER -> c

\* str.lower()
Lower(s) == [i \in 1..Len(s) |-> LowerChar(s[i])]

\* s.startswith(p)
StartsWith(s, p) == Len(p) <= Len(s) /\ SubSeq(s, 1, Len(p)) = p

\* the substring test `q in s`
Contains(s, q) ==
    \E i \in 1..(Len(s) - Len(q) + 1) : SubSeq(s, i, i + Len(q) - 1) = q

\* index of the last "/" of s, 0 when there is none
LastSep(s) ==
    LET at == {i \in 1..Len(s) : s[i] = "/"}
    IN  IF at = {} THEN 0 ELSE CHOOSE i \in at : \A j \in at : j <= i

\* os.path.basename / Path(p).name, and the parent directory, of an absolute
\* path written without a trailing separator
Basename(s) == SubSeq(s, LastSep(s) + 1, Len(s))
Dirname(s) == SubSeq(s, 1, LastSep(s) - 1)

SYSTEM_PYTHON_PATHS == <<
    <<"/", "u", "s", "r", "/", "b", "i", "n", "/", "p", "y", "t", "h", "o", "n">>,
    <<"/", "u", "s", "r", "/", "b", "i", "n", "/", "p", "y", "t", "h", "o", "n", "2">>,
    <<"/", "u", "s", "r", "/", "b", "i", "n", "/", "p", "y", "t", "h", "o", "n", "3">>,
    <<"/", "S", "y", "s", "t", "e", "m", "/", "L", "i", "b", "r", "a", "r", "y", "/", "F", "r", "a", "m", "e", "w", "o", "r", "k", "s", "/", "P", "y", "t", "h", "o", "n", ".", "f", "r", "a", "m", "e", "w", "o", "r", "k">>,
    <<"/", "L", "i", "b", "r", "a", "r", "y", "/", "F", "r", "a", "m", "e", "w", "o", "r", "k", "s", "/", "P", "y", "t", "h", "o", "n", ".", "f", "r", "a", "m", "e", "w", "o", "r", "k">>,
    <<"C", ":", "\\", "W", "i", "n", "d", "o", "w", "s", "\\", "S", "y", "s", "t", "e", "m", "3", "2">>,
    <<"C", ":", "\\", "P", "y", "t", "h", "o", "n">> >>

PROJECT_VENV_NAMES == <<<<".", "v", "e", "n", "v">>, <<"v", "e", "n", "v">>, <<"e", "n", "v">>, <<".", "e", "n", "v">>, <<"v", "i", "r", "t", "u", "a", "l", "e", "n", "v">>>>

\* the first branch of is_system_path that a plausible slip would take:
\* comparing for equality instead of testing the prefix
is_system_path_exact(path) ==
    \E k \in 1..Len(SYSTEM_PYTHON_PATHS) : path = SYSTEM_PYTHON_PATHS[k]

\* is_system_path(path), for a path that is already absolute
is_system_path(path) ==
    \E k \in 1..Len(SYSTEM_PYTHON_PATHS) : StartsWith(path, SYSTEM_PYTHON_PATHS[k])

\* get_project_name(venv_path)
get_project_name(venv_path) ==
    IF \E k \in 1..Len(PROJECT_VENV_NAMES) : Basename(venv_path) = PROJECT_VENV_NAMES[k]
    THEN Basename(Dirname(venv_path))
    ELSE Basename(venv_path)

\* the manager tag VirtualEnv._detect_info gives a path
VirtualEnv_manager(path) ==
    LET path_lower == Lower(path)
    IN  IF Contains(path_lower, <<".", "p", "y", "e", "n", "v">>) THEN <<"p", "y", "e", "n", "v">>
        ELSE IF Contains(path_lower, <<"p", "i", "p", "x">>) THEN <<"p", "i", "p", "x">>
        ELSE IF Contains(path_lower, <<"p", "o", "e", "t", "r", "y">>) THEN <<"p", "o", "e", "t", "r", "y">>
        ELSE IF Contains(path_lower, <<"c", "o", "n", "d", "a">>) \/ Contains(path_lower, <<"m", "i", "n", "i", "c", "o", "n", "d", "a">>)
                \/ Contains(path_lower, <<"a", "n", "a", "c", "o", "n", "d", "a">>) THEN <<"c", "o", "n", "d", "a">>
        ELSE IF Contains(path_lower, <<"v", "i", "r", "t", "u", "a", "l", "e", "n", "v", "s">>) \/ Contains(path_lower, <<"p", "i", "p", "e", "n", "v">>)
             THEN <<"p", "i", "p", "e", "n", "v">>
        ELSE IF Contains(path_lower, <<"h", "a", "t", "c", "h">>) THEN <<"h", "a", "t", "c", "h">>
        ELSE IF Contains(path_lower, <<"p", "d", "m">>) THEN <<"p", "d", "m">>
        ELSE IF Contains(path_lower, <<"u", "v">>) THEN <<"u", "v">>
        ELSE <<"v", "e", "n", "v">>

\* the manager tag PythonInterpreter._detect_info gives a path
PythonInterpreter_manager(path) ==
    LET path_lower == Lower(path)
    IN  IF Contains(path_lower, <<".", "p", "y", "e", "n", "v">>) THEN <<"p", "y", "e", "n", "v">>
        ELSE IF Contains(path_lower, <<".", "a", "s", "d", "f">>) THEN <<"a", "s", "d", "f">>
        ELSE IF Contains(path_lower, <<"c", "o", "n", "d", "a">>) \/ Contains(path_lower, <<"m", "i", "n", "i", "c", "o", "n", "d", "a">>)
                \/ Contains(path_lower, <<"a", "n", "a", "c", "o", "n", "d", "a">>) THEN <<"c", "o", "n", "d", "a">>
        ELSE IF Contains(path_lower, <<"h", "o", "m", "e", "b", "r", "e", "w">>) \/ Contains(path_lower, <<"c", "e", "l", "l", "a", "r">>)
             THEN <<"h", "o", "m", "e", "b", "r", "e", "w">>
        ELSE IF Contains(path_lower, <<"u", "v">>) THEN <<"u", "v">>
        ELSE IF is_system_path(path) THEN <<"s", "y", "s", "t", "e", "m">>
        ELSE <<"u", "n", "k", "n", "o", "w", "n">>

(***************************************************************************)
(* The inventory the TUI is constructed with.  An environment is named by  *)
(* its position in the list find_venvs returned (1..MaxVenvs); the record  *)
(* VirtualEnv.__init__ builds for it is ENVS[e].                           *)
(***************************************************************************)
EnvIds == 1..MaxVenvs

EnvPath(e) ==
    CASE e = 1 -> <<"/", "h", "/", "W", "e", "b", "/", ".", "v", "e", "n", "v">>
      [] e = 2 -> <<"/", "u", "s", "r", "/", "b", "i", "n", "/", "p", "y", "t", "h", "o", "n", "-", "a", "p", "i", "/", "v", "e", "n", "v">>
      [] e = 3 -> <<"/", "h", "/", "a", "p", "p", "/", "e", "n", "v">>
      [] OTHER -> <<"/", "L", "i", "b", "r", "a", "r", "y", "/", "F", "r", "a", "m", "e", "w", "o", "r", "k", "s", "/", "P", "y", "t", "h", "o", "n", ".", "f", "r", "a", "m", "e", "w", "o", "r", "k", "/", "u", "v">>

Package(name, version) == [name |-> name, version |-> version]

\* what `pip list` of the environment reports when the TUI starts
InstalledAtStart(e) ==
    CASE e = 1 -> <<Package(<<"x", "y">>, <<"1">>), Package(<<"A", "b">>, <<"2">>)>>
      [] OTHER -> << >>

\* VirtualEnv.__init__ and the constant part of _detect_info
VirtualEnv(e) ==
    [path |-> EnvPath(e),
     project_name |-> get_project_name(EnvPath(e)),
     manager |-> VirtualEnv_manager(EnvPath(e)),
     \* whether bin/python exists and is executable (python_executable)
     has_python |-> e = 1]

ENVS == [e \in EnvIds |-> VirtualEnv(e)]

\* `self.version = None`: the version probe gave nothing
NoVersion == <<"None">>

\* PythonInterpreter.__init__ and _detect_info
PythonInterpreter(path, version) ==
    [path |-> path, version |-> version, manager |-> PythonInterpreter_manager(path),
     is_system |-> is_system_path(path)]

INTERPRETERS == <<
    PythonInterpreter(<<"/", "u", "s", "r", "/", "b", "i", "n", "/", "p", "y", "t", "h", "o", "n", "3">>, <<"3", ".", "1", "1", " ", "A">>),
    PythonInterpreter(<<"/", "h", "/", ".", "p", "y", "e", "n", "v", "/", "v", "e", "r", "s", "i", "o", "n", "s", "/", "3", ".", "9", "/", "b", "i", "n", "/", "p", "y", "t", "h", "o", "n">>, NoVersion) >>

\* what the user can type at the search prompt
Queries == {<< >>, <<"a">>, <<"W">>}

\* what the user can type at a confirmation prompt (getstr reads at most 3
\* characters; when getstr raises, the code takes the answer to be "n")
Responses == {<<"y">>, <<"Y", "E", "S">>, <<"n">>, <<"y", "e">>}

\* the value of `response` after an event that showed no prompt
NoPrompt == <<"no prompt">>

(***************************************************************************)
(* BroomstickTUI: helpers                                                  *)
(***************************************************************************)
NoMode == "None"
ListViews == {"interpreters", "venvs", "venv_detail"}

\* `visible_height = screen_height - 10` (line 687)
HeaderFooterRows == 10
visible_height == ScreenHeight - HeaderFooterRows

\* a list that keeps the element it was asked to drop
PopNothing(l, idx) == l

\* the list l without its element at 0-based position idx: list.pop(idx)
Pop(l, idx) == [k \in 1..(Len(l) - 1) |-> IF k <= idx THEN l[k] ELSE l[k + 1]]

\* the 0-based positions 0..n-1 that satisfy Test, in increasing order
Matching(n, Test(_)) == SelectSeq([k \in 1..n |-> k - 1], Test)

SetMax(S) == CHOOSE x \in S : \A y \in S : y <= x
SetMin(S) == CHOOSE x \in S : \A y \in S : x <= y

\* the cursor as _adjust_scroll leaves it (lines 710-711)
AdjustedCursor(c, max_items) ==
    IF max_items > 0 THEN Max(0, Min(c, max_items - 1)) ELSE c

\* the scroll offset as _adjust_scroll leaves it, given the adjusted cursor
\* (lines 714-721)
AdjustedScroll(c, s, max_items, vh) ==
    LET s1 == IF c < s THEN c
              ELSE IF c >= s + vh THEN c - vh + 1
              ELSE s
        max_scroll == Max(0, max_items - vh)
    IN  Max(0, Min(s1, max_scroll))

\* max_items of _adjust_scroll_for_view with three categories in every mode
ViewMaxItemsUngated ==
    CASE current_view = "mode_select" -> 5
      [] current_view = "category_select" -> 3
      [] current_view = "interpreters" -> Len(INTERPRETERS)
      [] current_view = "venvs" -> Len(venvs)
      [] current_view = "venv_detail" ->
            IF selected_venv # NoVenv THEN Len(packages[selected_venv]) ELSE 0
      [] OTHER -> 0

\* max_items of _adjust_scroll_for_view (lines 689-700)
ViewMaxItems ==
    CASE current_view = "mode_select" -> 5
      [] current_view = "category_select" -> IF mode = "explore" THEN 3 ELSE 2
      [] current_view = "interpreters" -> Len(INTERPRETERS)
      [] current_view = "venvs" -> Len(venvs)
      [] current_view = "venv_detail" ->
            IF selected_venv # NoVenv THEN Len(packages[selected_venv]) ELSE 0
      [] OTHER -> 0

\* _apply_search_filter with self.search_query = q: the new filtered_items
apply_search_filter(q) ==
    CASE current_view = "interpreters" ->
            Matching(Len(INTERPRETERS), LAMBDA i :
                LET interp == INTERPRETERS[i + 1]
                IN  \/ (interp.version # NoVersion /\ Contains(Lower(interp.version), q))
                    \/ Contains(Lower(interp.manager), q)
                    \/ Contains(Lower(interp.path), q))
      [] current_view = "venvs" ->
            Matching(Len(venvs), LAMBDA i :
                LET venv == ENVS[venvs[i + 1]]
                IN  \/ Contains(Lower(venv.project_name), q)
                    \/ Contains(Lower(venv.manager), q)
                    \/ Contains(Lower(venv.path), q))
      [] current_view = "venv_detail" /\ selected_venv # NoVenv ->
            Matching(Len(packages[selected_venv]), LAMBDA i :
                LET pkg == packages[selected_venv][i + 1]
                IN  \/ Contains(Lower(pkg.name), q)
                    \/ Contains(Lower(pkg.version), q))
      [] OTHER -> << >>

\* the list the current view's items are taken from, by length
UnfilteredLen ==
    CASE current_view = "interpreters" -> Len(INTERPRETERS)
      [] current_view = "venvs" -> Len(venvs)
      [] current_view = "venv_detail" /\ selected_venv # NoVenv ->
            Len(packages[selected_venv])
      [] OTHER -> 0

\* _get_current_items: the 0-based positions, in the unfiltered list of the
\* view, of the items it returns
get_current_items ==
    IF search_mode /\ filtered_items # << >>
    THEN IF current_view \in {"interpreters", "venvs"}
            \/ (current_view = "venv_detail" /\ selected_venv # NoVenv)
         THEN filtered_items
         ELSE << >>
    ELSE [k \in 1..UnfilteredLen |-> k - 1]

\* the rows the list views draw, as 0-based positions of the unfiltered
\* list: _draw_interpreters and _draw_venvs slice _get_current_items()
\* (lines 906-907, 961-962), _draw_venv_detail slices venv.packages (line 1053)
presented_items ==
    IF current_view = "venv_detail"
    THEN [k \in 1..UnfilteredLen |-> k - 1]
    ELSE get_current_items

\* _get_current_items raises IndexError: a filtered index is out of range
get_current_items_raises ==
    /\ search_mode /\ filtered_items # << >>
    /\ current_view \in {"interpreters", "venvs"}
         \/ (current_view = "venv_detail" /\ selected_venv # NoVenv)
    /\ \E k \in 1..Len(filtered_items) : filtered_items[k] >= UnfilteredLen

\* outcomes of an external `pip` process: exit status 0 with usable output;
\* a failure the callee turns into "no data" (non-zero exit, timeout, missing
\* executable, invalid JSON); an exception the callee does not catch
Outcomes == {"ok", "fail", "raise"}

\* VirtualEnv.probe_packages(force) on environment e with the process
\* ending as oc, from cache (pk, ld): the new cache, and whether it raised
probe_packages(e, force, oc, pk, ld) ==
    IF ld[e] /\ ~force THEN [packages |-> pk, loaded |-> ld, raised |-> FALSE]
    ELSE IF ~ENVS[e].has_python THEN [packages |-> pk, loaded |-> ld, raised |-> FALSE]
    ELSE IF oc = "ok" /\ e \in fs_dirs
         THEN [packages |-> [pk EXCEPT ![e] = disk_packages[e]],
               loaded |-> [ld EXCEPT ![e] = TRUE], raised |-> FALSE]
    ELSE [packages |-> pk, loaded |-> ld, raised |-> oc = "raise"]

\* the probing loop of PackageAnalyzer._build_map over vs[i..], stopping at
\* the first probe that raises
RECURSIVE build_map_probes(_, _, _, _, _)
build_map_probes(vs, i, oc, pk, ld) ==
    IF i > Len(vs) THEN [packages |-> pk, loaded |-> ld, raised |-> FALSE]
    ELSE LET r == probe_packages(vs[i], FALSE,
                                 IF vs[i] \in DOMAIN oc THEN oc[vs[i]] ELSE "ok", pk, ld)
         IN  IF r.raised THEN r
             ELSE build_map_probes(vs, i + 1, oc, r.packages, r.loaded)

\* the test of the confirmation answer, with the prefix test a slip would make
AffirmativePrefix(resp) == Len(resp) > 0 /\ Lower(resp)[1] = "y"

\* the test of the confirmation answer that lets every answer pass
AffirmativeAlways(resp) == TRUE

\* `response.lower() in ['y', 'yes']`
Affirmative(resp) == Lower(resp) \in {<<"y">>, <<"y", "e", "s">>}

(***************************************************************************)
(* BroomstickTUI: the event loop.  One iteration of `while True` in run()  *)
(* is a Draw step followed by one key step.                                *)
(***************************************************************************)
OtherSpecsIdle == UNCHANGED <<an_vars, dv_vars, cli_vars>>

NoEffects ==
    /\ response' = NoPrompt
    /\ rmtree_calls' = << >>
    /\ uninstall_calls' = << >>
    /\ batch_selected' = {}
    /\ batch_total' = 0
    /\ batch_count' = 0
    /\ batch_progress' = << >>

TuiInit ==
    /\ mode = NoMode
    /\ current_view = "mode_select"
    /\ selected_venv = NoVenv
    /\ cursor = 0
    /\ scroll_offset = 0
    /\ selected_items = {}
    /\ breadcrumb = << >>
    /\ search_mode = FALSE
    /\ search_query = << >>
    /\ filtered_items = << >>
    /\ venvs = [k \in 1..MaxVenvs |-> k]
    /\ packages = [e \in EnvIds |-> << >>]
    /\ packages_loaded = [e \in EnvIds |-> FALSE]
    /\ pc = "draw"
    /\ fs_dirs = EnvIds
    /\ disk_packages = [e \in EnvIds |-> InstalledAtStart(e)]
    /\ response = NoPrompt
    /\ rmtree_calls = << >>
    /\ uninstall_calls = << >>
    /\ batch_selected = {}
    /\ batch_total = 0
    /\ batch_count = 0
    /\ batch_progress = << >>

\* _go_back leaving the detail view without releasing the environment
go_back_keeps_binding ==
    /\ UNCHANGED <<search_mode, search_query, filtered_items, venvs>>
    /\ CASE current_view = "venv_detail" ->
              /\ current_view' = "venvs"
              /\ cursor' = 0
              /\ scroll_offset' = 0
              /\ selected_items' = {}
              /\ breadcrumb' = IF breadcrumb # << >>
                               THEN SubSeq(breadcrumb, 1, Len(breadcrumb) - 1)
                               ELSE breadcrumb
              /\ UNCHANGED <<mode, selected_venv>>
         [] current_view \in {"interpreters", "venvs", "analysis"} ->
              /\ current_view' = "category_select"
              /\ cursor' = 0
              /\ scroll_offset' = 0
              /\ selected_items' = {}
              /\ breadcrumb' = << >>
              /\ UNCHANGED <<mode, selected_venv>>
         [] current_view = "category_select" ->
              /\ current_view' = "mode_select"
              /\ mode' = NoMode
              /\ cursor' = 0
              /\ scroll_offset' = 0
              /\ breadcrumb' = << >>
              /\ UNCHANGED <<selected_venv, selected_items>>
         [] OTHER ->
              /\ current_view' = "mode_select"
              /\ mode' = NoMode
              /\ cursor' = 0
              /\ breadcrumb' = << >>
              /\ UNCHANGED <<selected_venv, selected_items, scroll_offset>>

\* _go_back (lines 1403-1429)
go_back ==
    /\ UNCHANGED <<search_mode, search_query, filtered_items, venvs>>
    /\ CASE current_view = "venv_detail" ->
              /\ current_view' = "venvs"
              /\ selected_venv' = NoVenv
              /\ cursor' = 0
              /\ scroll_offset' = 0
              /\ selected_items' = {}
              /\ breadcrumb' = IF breadcrumb # << >>
                               THEN SubSeq(breadcrumb, 1, Len(breadcrumb) - 1)
                               ELSE breadcrumb
              /\ UNCHANGED mode
         [] current_view \in {"interpreters", "venvs", "analysis"} ->
              /\ current_view' = "category_select"
              /\ cursor' = 0
              /\ scroll_offset' = 0
              /\ selected_items' = {}
              /\ breadcrumb' = << >>
              /\ UNCHANGED <<mode, selected_venv>>
         [] current_view = "category_select" ->
              /\ current_view' = "mode_select"
              /\ mode' = NoMode
              /\ cursor' = 0
              /\ scroll_offset' = 0
              /\ breadcrumb' = << >>
              /\ UNCHANGED <<selected_venv, selected_items>>
         [] OTHER ->
              /\ current_view' = "mode_select"
              /\ mode' = NoMode
              /\ cursor' = 0
              /\ breadcrumb' = << >>
              /\ UNCHANGED <<selected_venv, selected_items, scroll_offset>>

\* the drawing half of a loop iteration (lines 548-574).  Drawing changes
\* state in three places: _draw_interpreters and _draw_venvs call
\* _get_current_items, _draw_venv_detail probes an unloaded environment, and
\* _draw_analysis builds a PackageAnalyzer, which probes every unloaded one.
Draw ==
    /\ pc = "draw"
    /\ UNCHANGED <<world, effects>>
    /\ OtherSpecsIdle
    /\ CASE current_view \in {"interpreters", "venvs"} ->
              /\ pc' = IF get_current_items_raises THEN "crashed" ELSE "getch"
              /\ UNCHANGED <<tui_fields, env_fields>>
         [] current_view = "venv_detail" /\ selected_venv = NoVenv ->
              /\ go_back
              /\ pc' = "getch"
              /\ UNCHANGED env_fields
         [] current_view = "venv_detail" /\ selected_venv # NoVenv ->
              \E oc \in (IF packages_loaded[selected_venv] \/ ~ENVS[selected_venv].has_python
                         THEN {"ok"} ELSE Outcomes) :
                LET r == probe_packages(selected_venv, FALSE, oc, packages, packages_loaded)
                IN  /\ packages' = r.packages
                    /\ packages_loaded' = r.loaded
                    /\ pc' = IF r.raised THEN "crashed" ELSE "getch"
                    /\ UNCHANGED tui_fields
         [] current_view = "analysis" ->
              \E oc \in [{e \in EnvIds : ~packages_loaded[e] /\ ENVS[e].has_python
                                             /\ \E k \in 1..Len(venvs) : venvs[k] = e}
                          -> Outcomes] :
                LET r == build_map_probes(venvs, 1, oc, packages, packages_loaded)
                IN  /\ packages' = r.packages
                    /\ packages_loaded' = r.loaded
                    /\ pc' = IF r.raised THEN "crashed" ELSE "getch"
                    /\ UNCHANGED tui_fields
         [] OTHER ->
              /\ pc' = "getch"
              /\ UNCHANGED <<tui_fields, env_fields>>

\* key 'q' (lines 578-582)
KeyQuit ==
    /\ pc = "getch"
    /\ NoEffects
    /\ UNCHANGED <<env_fields, world>>
    /\ OtherSpecsIdle
    /\ IF Len(breadcrumb) > 0 \/ current_view # "mode_select"
       THEN go_back /\ pc' = "draw"
       ELSE pc' = "done" /\ UNCHANGED tui_fields

\* KEY_UP (lines 583-585)
KeyUp ==
    /\ pc = "getch"
    /\ NoEffects
    /\ UNCHANGED <<env_fields, world>>
    /\ OtherSpecsIdle
    /\ cursor' = AdjustedCursor(Max(0, cursor - 1), ViewMaxItems)
    /\ scroll_offset' = AdjustedScroll(cursor', scroll_offset, ViewMaxItems, visible_height)
    /\ pc' = "draw"
    /\ UNCHANGED <<mode, current_view, selected_venv, selected_items, breadcrumb,
                   search_mode, search_query, filtered_items, venvs>>

\* KEY_DOWN (lines 586-588)
KeyDown ==
    /\ pc = "getch"
    /\ ViewMaxItems > 0 \/ cursor < MaxCursor
    /\ NoEffects
    /\ UNCHANGED <<env_fields, world>>
    /\ OtherSpecsIdle
    /\ cursor' = AdjustedCursor(cursor + 1, ViewMaxItems)
    /\ scroll_offset' = AdjustedScroll(cursor', scroll_offset, ViewMaxItems, visible_height)
    /\ pc' = "draw"
    /\ UNCHANGED <<mode, current_view, selected_venv, selected_items, breadcrumb,
                   search_mode, search_query, filtered_items, venvs>>

MODES == <<"list", "delete", "explore", "package", "quit">>

\* _handle_enter drilling into an environment in every mode
handle_enter_any_mode ==
    /\ UNCHANGED <<search_mode, search_query, filtered_items, venvs>>
    /\ CASE current_view = "mode_select" /\ cursor < Len(MODES)
                /\ MODES[cursor + 1] = "quit" ->
              \* sys.exit(0)
              /\ pc' = "done"
              /\ UNCHANGED <<mode, current_view, selected_venv, cursor, scroll_offset,
                             selected_items, breadcrumb>>
         [] current_view = "mode_select" /\ cursor < Len(MODES)
                /\ MODES[cursor + 1] # "quit" ->
              /\ mode' = MODES[cursor + 1]
              /\ current_view' = "category_select"
              /\ breadcrumb' = << >>
              /\ cursor' = 0
              /\ scroll_offset' = 0
              /\ selected_items' = {}
              /\ pc' = "draw"
              /\ UNCHANGED selected_venv
         [] current_view = "category_select" /\ cursor = 0 ->
              /\ current_view' = "interpreters"
              /\ breadcrumb' = Append(breadcrumb, <<"I", "n", "t", "e", "r", "p", "r", "e", "t", "e", "r", "s">>)
              /\ cursor' = 0
              /\ scroll_offset' = 0
              /\ pc' = "draw"
              /\ UNCHANGED <<mode, selected_venv, selected_items>>
         [] current_view = "category_select" /\ cursor = 1 ->
              /\ current_view' = "venvs"
              /\ breadcrumb' = Append(breadcrumb, <<"V", "i", "r", "t", "u", "a", "l", " ", "E", "n", "v", "i", "r", "o", "n", "m", "e", "n", "t", "s">>)
              /\ cursor' = 0
              /\ scroll_offset' = 0
              /\ pc' = "draw"
              /\ UNCHANGED <<mode, selected_venv, selected_items>>
         [] current_view = "category_select" /\ cursor = 2 /\ mode = "explore" ->
              /\ current_view' = "analysis"
              /\ breadcrumb' = Append(breadcrumb, <<"A", "n", "a", "l", "y", "s", "i", "s">>)
              /\ cursor' = 0
              /\ scroll_offset' = 0
              /\ pc' = "draw"
              /\ UNCHANGED <<mode, selected_venv, selected_items>>
         [] current_view = "venvs" /\ cursor < Len(venvs) ->
              /\ selected_venv' = venvs[cursor + 1]
              /\ current_view' = "venv_detail"
              /\ breadcrumb' = Append(breadcrumb, ENVS[venvs[cursor + 1]].project_name)
              /\ cursor' = 0
              /\ scroll_offset' = 0
              /\ selected_items' = {}
              /\ pc' = "draw"
              /\ UNCHANGED mode
         [] OTHER ->
              /\ pc' = "draw"
              /\ UNCHANGED <<mode, current_view, selected_venv, cursor, scroll_offset,
                             selected_items, breadcrumb>>

\* _handle_enter (lines 1217-1259)
handle_enter ==
    /\ UNCHANGED <<search_mode, search_query, filtered_items, venvs>>
    /\ CASE current_view = "mode_select" /\ cursor < Len(MODES)
                /\ MODES[cursor + 1] = "quit" ->
              \* sys.exit(0)
              /\ pc' = "done"
              /\ UNCHANGED <<mode, current_view, selected_venv, cursor, scroll_offset,
                             selected_items, breadcrumb>>
         [] current_view = "mode_select" /\ cursor < Len(MODES)
                /\ MODES[cursor + 1] # "quit" ->
              /\ mode' = MODES[cursor + 1]
              /\ current_view' = "category_select"
              /\ breadcrumb' = << >>
              /\ cursor' = 0
              /\ scroll_offset' = 0
              /\ selected_items' = {}
              /\ pc' = "draw"
              /\ UNCHANGED selected_venv
         [] current_view = "category_select" /\ cursor = 0 ->
              /\ current_view' = "interpreters"
              /\ breadcrumb' = Append(breadcrumb, <<"I", "n", "t", "e", "r", "p", "r", "e", "t", "e", "r", "s">>)
              /\ cursor' = 0
              /\ scroll_offset' = 0
              /\ pc' = "draw"
              /\ UNCHANGED <<mode, selected_venv, selected_items>>
         [] current_view = "category_select" /\ cursor = 1 ->
              /\ current_view' = "venvs"
              /\ breadcrumb' = Append(breadcrumb, <<"V", "i", "r", "t", "u", "a", "l", " ", "E", "n", "v", "i", "r", "o", "n", "m", "e", "n", "t", "s">>)
              /\ cursor' = 0
              /\ scroll_offset' = 0
              /\ pc' = "draw"
              /\ UNCHANGED <<mode, selected_venv, selected_items>>
         [] current_view = "category_select" /\ cursor = 2 /\ mode = "explore" ->
              /\ current_view' = "analysis"
              /\ breadcrumb' = Append(breadcrumb, <<"A", "n", "a", "l", "y", "s", "i", "s">>)
              /\ cursor' = 0
              /\ scroll_offset' = 0
              /\ pc' = "draw"
              /\ UNCHANGED <<mode, selected_venv, selected_items>>
         [] current_view = "venvs" /\ mode \in {"list", "explore", "package"}
                /\ cursor < Len(venvs) ->
              /\ selected_venv' = venvs[cursor + 1]
              /\ current_view' = "venv_detail"
              /\ breadcrumb' = Append(breadcrumb, ENVS[venvs[cursor + 1]].project_name)
              /\ cursor' = 0
              /\ scroll_offset' = 0
              /\ selected_items' = {}
              /\ pc' = "draw"
              /\ UNCHANGED mode
         [] OTHER ->
              /\ pc' = "draw"
              /\ UNCHANGED <<mode, current_view, selected_venv, cursor, scroll_offset,
                             selected_items, breadcrumb>>

\* the Enter key (lines 589-590)
KeyEnter ==
    /\ pc = "getch"
    /\ NoEffects
    /\ UNCHANGED <<env_fields, world>>
    /\ OtherSpecsIdle
    /\ handle_enter

\* the position _toggle_selection would flip if it translated the cursor
\* through the active filter, as _draw_venvs does for the marks it shows
toggle_index_mapped ==
    IF search_mode /\ cursor < Len(filtered_items)
    THEN filtered_items[cursor + 1]
    ELSE cursor

\* the position _toggle_selection flips: `self.cursor` (lines 1264-1267)
toggle_index == cursor

\* _toggle_selection without the test of the view
toggle_selection_any_view ==
    /\ selected_items' =
          IF toggle_index \in selected_items
          THEN selected_items \ {toggle_index}
          ELSE selected_items \cup {toggle_index}
    /\ UNCHANGED <<mode, current_view, selected_venv, cursor, scroll_offset,
                   breadcrumb, search_mode, search_query, filtered_items, venvs>>

\* _toggle_selection (lines 1261-1267)
toggle_selection ==
    /\ selected_items' =
          IF current_view \in ListViews
          THEN IF toggle_index \in selected_items
               THEN selected_items \ {toggle_index}
               ELSE selected_items \cup {toggle_index}
          ELSE selected_items
    /\ UNCHANGED <<mode, current_view, selected_venv, cursor, scroll_offset,
                   breadcrumb, search_mode, search_query, filtered_items, venvs>>

\* the space key (lines 591-592)
KeySpace ==
    /\ pc = "getch"
    /\ NoEffects
    /\ UNCHANGED <<env_fields, world>>
    /\ OtherSpecsIdle
    /\ pc' = "draw"
    /\ IF mode \in {"delete", "package"}
       THEN toggle_selection
       ELSE UNCHANGED tui_fields

\* the order in which a delete batch takes the selected positions, were it
\* ascending
delete_next_ascending(S) == SetMin(S)

\* `for idx in sorted(self.selected_items, reverse=True)` (line 1302)
delete_next(S) == SetMax(S)

\* the guard of the delete loop, without the protected-path test
delete_allowed_unguarded(e) == TRUE

\* `if not is_system_path(venv.path)` (line 1305)
delete_allowed(e) == ~is_system_path(ENVS[e].path)

\* the loop of _confirm_delete (lines 1302-1326) over the selected positions
\* S still to visit; `fails` are the environments whose shutil.rmtree raises
RECURSIVE delete_loop(_, _, _, _, _, _, _)
delete_loop(S, vs, dirs, deleted, calls, shown, fails) ==
    IF S = {} THEN [venvs |-> vs, dirs |-> dirs, deleted |-> deleted, calls |-> calls,
                    shown |-> shown]
    ELSE
      LET idx == delete_next(S)
          rest == S \ {idx}
      IN  IF current_view = "venvs" /\ idx < Len(vs)
          THEN LET venv == vs[idx + 1]
               IN  IF delete_allowed(venv)
                   THEN IF venv \in dirs /\ venv \notin fails
                        THEN delete_loop(rest, Pop(vs, idx), dirs \ {venv}, deleted + 1,
                                         Append(calls, venv),
                                         Append(shown, deleted + 1), fails)
                        ELSE delete_loop(rest, vs, dirs, deleted, Append(calls, venv),
                                         Append(shown, deleted + 1), fails)
                   ELSE delete_loop(rest, vs, dirs, deleted, calls, shown, fails)
          ELSE delete_loop(rest, vs, dirs, deleted, calls, shown, fails)

\* the environments a confirmed batch over the current selection hands to
\* shutil.rmtree when no earlier removal has shifted the list
delete_candidates ==
    {venvs[idx + 1] : idx \in {i \in selected_items : i < Len(venvs)}}

\* _confirm_delete (lines 1269-1337) with the user answering `resp` and
\* shutil.rmtree raising for the environments in `fails`
confirm_delete(resp, fails) ==
    /\ response' = resp
    /\ uninstall_calls' = << >>
    /\ IF Affirmative(resp)
       THEN LET r == delete_loop(selected_items, venvs, fs_dirs, 0, << >>, << >>, fails)
            IN  /\ venvs' = r.venvs
                /\ fs_dirs' = r.dirs
                /\ rmtree_calls' = r.calls
                /\ batch_selected' = selected_items
                /\ batch_total' = Cardinality(selected_items)
                /\ batch_count' = r.deleted
                /\ batch_progress' = r.shown
                /\ selected_items' = {}
                /\ cursor' = Min(cursor, Max(0, Len(r.venvs) - 1))
                /\ UNCHANGED <<mode, current_view, selected_venv, scroll_offset,
                               breadcrumb, search_mode, search_query, filtered_items,
                               disk_packages>>
       ELSE /\ rmtree_calls' = << >>
            /\ batch_selected' = {}
            /\ batch_total' = 0
            /\ batch_count' = 0
            /\ batch_progress' = << >>
            /\ UNCHANGED <<tui_fields, world>>

\* key 'd' (lines 593-594); _confirm_delete returns at once when nothing is
\* selected (lines 1271-1272)
KeyDelete ==
    /\ pc = "getch"
    /\ UNCHANGED env_fields
    /\ OtherSpecsIdle
    /\ pc' = "draw"
    /\ IF mode = "delete" /\ selected_items # {}
       THEN \E resp \in Responses :
              \E fails \in SUBSET (IF Affirmative(resp) /\ current_view = "venvs"
                                    THEN delete_candidates ELSE {}) :
                confirm_delete(resp, fails)
       ELSE NoEffects /\ UNCHANGED <<tui_fields, world>>

\* the packages left on disk after `pip uninstall -y name` succeeded
without_package(installed, name) == SelectSeq(installed, LAMBDA p : p.name # name)

\* the loop of _confirm_uninstall (lines 1366-1389) over the selected
\* positions S still to visit, in ascending order; oc[idx] is how the pip
\* process for position idx ends
RECURSIVE uninstall_loop(_, _, _, _, _, _, _)
uninstall_loop(S, pkgs, installed, uninstalled, calls, shown, oc) ==
    IF S = {} THEN [installed |-> installed, uninstalled |-> uninstalled, calls |-> calls,
                    shown |-> shown]
    ELSE
      LET idx == SetMin(S)
          rest == S \ {idx}
      IN  IF idx < Len(pkgs)
          THEN LET pkg == pkgs[idx + 1]
               IN  CASE oc[idx] = "ok" ->
                          uninstall_loop(rest, pkgs, without_package(installed, pkg.name),
                                         uninstalled + 1, Append(calls, pkg.name),
                                         Append(shown, uninstalled + 1), oc)
                     [] oc[idx] = "fail" ->
                          uninstall_loop(rest, pkgs, installed, uninstalled + 1,
                                         Append(calls, pkg.name),
                                         Append(shown, uninstalled + 1), oc)
                     [] OTHER ->
                          uninstall_loop(rest, pkgs, installed, uninstalled,
                                         Append(calls, pkg.name),
                                         Append(shown, uninstalled + 1), oc)
          ELSE uninstall_loop(rest, pkgs, installed, uninstalled, calls, shown, oc)

\* _confirm_uninstall (lines 1339-1401) with the user answering `resp`;
\* probe_oc is how the refreshing probe_packages(force=True) ends
confirm_uninstall(resp, oc, probe_oc) ==
    /\ response' = resp
    /\ rmtree_calls' = << >>
    /\ IF Affirmative(resp)
       THEN LET sv == selected_venv
                r == uninstall_loop(selected_items, packages[sv], disk_packages[sv],
                                    0, << >>, << >>, oc)
                installed == [disk_packages EXCEPT ![sv] = r.installed]
            IN  /\ disk_packages' = installed
                /\ uninstall_calls' = r.calls
                /\ batch_selected' = selected_items
                /\ batch_total' = Cardinality(selected_items)
                /\ batch_count' = r.uninstalled
                /\ batch_progress' = r.shown
                /\ selected_items' = {}
                /\ UNCHANGED <<mode, current_view, selected_venv, scroll_offset,
                               breadcrumb, search_mode, search_query, filtered_items,
                               venvs, fs_dirs>>
                /\ IF ~ENVS[sv].has_python
                   THEN /\ UNCHANGED env_fields
                        /\ cursor' = Min(cursor, Max(0, Len(packages[sv]) - 1))
                        /\ pc' = "draw"
                   ELSE IF probe_oc = "ok" /\ sv \in fs_dirs
                   THEN /\ packages' = [packages EXCEPT ![sv] = installed[sv]]
                        /\ packages_loaded' = [packages_loaded EXCEPT ![sv] = TRUE]
                        /\ cursor' = Min(cursor, Max(0, Len(installed[sv]) - 1))
                        /\ pc' = "draw"
                   ELSE IF probe_oc = "raise"
                   THEN \* the exception leaves run()
                        /\ UNCHANGED <<env_fields, cursor>>
                        /\ pc' = "crashed"
                   ELSE /\ UNCHANGED env_fields
                        /\ cursor' = Min(cursor, Max(0, Len(packages[sv]) - 1))
                        /\ pc' = "draw"
       ELSE /\ uninstall_calls' = << >>
            /\ batch_selected' = {}
            /\ batch_total' = 0
            /\ batch_count' = 0
            /\ batch_progress' = << >>
            /\ pc' = "draw"
            /\ UNCHANGED <<tui_fields, env_fields, world>>

\* the selected positions that name a package of the bound environment
uninstall_candidates ==
    {i \in selected_items : i < Len(packages[selected_venv])}

\* key 'u' (lines 595-596); _confirm_uninstall returns at once when nothing
\* is selected or no environment is bound (lines 1341-1342)
KeyUninstall ==
    /\ pc = "getch"
    /\ OtherSpecsIdle
    /\ IF mode = "package" /\ selected_items # {} /\ selected_venv # NoVenv
       THEN \E resp \in Responses :
              \E oc \in [IF Affirmative(resp) THEN uninstall_candidates ELSE {} -> Outcomes],
                 probe_oc \in (IF Affirmative(resp) THEN Outcomes ELSE {"ok"}) :
                confirm_uninstall(resp, oc, probe_oc)
       ELSE /\ NoEffects
            /\ pc' = "draw"
            /\ UNCHANGED <<tui_fields, env_fields, world>>

\* the ESC key (lines 597-603)
KeyEscape ==
    /\ pc = "getch"
    /\ NoEffects
    /\ UNCHANGED <<env_fields, world>>
    /\ OtherSpecsIdle
    /\ pc' = "draw"
    /\ IF search_mode
       THEN /\ search_mode' = FALSE
            /\ search_query' = << >>
            /\ filtered_items' = << >>
            /\ UNCHANGED <<mode, current_view, selected_venv, cursor, scroll_offset,
                           selected_items, breadcrumb, venvs>>
       ELSE go_back

\* _start_search with the user typing `query` (lines 610-639)
start_search(query) ==
    /\ UNCHANGED <<mode, current_view, selected_venv, selected_items, breadcrumb, venvs>>
    /\ IF query # << >>
       THEN /\ search_query' = Lower(query)
            /\ search_mode' = TRUE
            /\ filtered_items' = apply_search_filter(Lower(query))
            /\ cursor' = 0
            /\ scroll_offset' = 0
       ELSE /\ search_mode' = FALSE
            /\ search_query' = << >>
            /\ filtered_items' = << >>
            /\ UNCHANGED <<cursor, scroll_offset>>

\* key '/' (lines 606-607)
KeySearch ==
    /\ pc = "getch"
    /\ NoEffects
    /\ UNCHANGED <<env_fields, world>>
    /\ OtherSpecsIdle
    /\ pc' = "draw"
    /\ IF current_view \in ListViews
       THEN \E query \in Queries : start_search(query)
       ELSE UNCHANGED tui_fields

\* 'h' and '?' toggle the help overlay, which is presentation only and not
\* part of the model; every other key matches no branch (lines 604-607)
KeyOther ==
    /\ pc = "getch"
    /\ NoEffects
    /\ UNCHANGED <<tui_fields, env_fields, world>>
    /\ OtherSpecsIdle
    /\ pc' = "draw"

TuiNext ==
    \/ Draw
    \/ KeyQuit
    \/ KeyUp
    \/ KeyDown
    \/ KeyEnter
    \/ KeySpace
    \/ KeyDelete
    \/ KeyUninstall
    \/ KeyEscape
    \/ KeySearch
    \/ KeyOther


(***************************************************************************)
(* PackageAnalyzer (lines 468-501).  The analysed environments are given   *)
(* by their `packages` lists as the probes left them; an environment is    *)
(* named by its position in `venvs`.                                       *)
(***************************************************************************)
\* number of environments handed to PackageAnalyzer
MaxAnVenvs == 2
\* length of one environment's package list
MaxAnPkgs == 2

\* the Package records a `pip list` can report in the model
PkgUniverse == {Package(<<"r">>, <<"1">>), Package(<<"R">>, <<"2">>), Package(<<"f">>, <<"1">>)}

PackageLists == UNION {[1..n -> PkgUniverse] : n \in 0..MaxAnPkgs}
VenvLists == UNION {[1..n -> PackageLists] : n \in 0..MaxAnVenvs}

\* the (name, version, venv) triples in the order the two loops of
\* _build_map visit them: environments from i on, packages of i from j on
RECURSIVE installs_from(_, _, _)
installs_from(vs, i, j) ==
    IF i > Len(vs) THEN << >>
    ELSE IF j > Len(vs[i]) THEN installs_from(vs, i + 1, 1)
    ELSE <<[name |-> vs[i][j].name, version |-> vs[i][j].version, venv |-> i]>>
         \o installs_from(vs, i, j + 1)

\* the list `name`'s entries are appended to: pkg.name taken as it is
map_key_verbatim(name) == name

\* `name = pkg.name.lower()` (line 483)
map_key(name) == Lower(name)

\* _build_map (lines 476-484): name -> [(version, venv)], in append order
build_map(vs) ==
    LET all == installs_from(vs, 1, 1)
        keys == {map_key(all[k].name) : k \in 1..Len(all)}
        entry(t) == <<t.version, t.venv>>
    IN  [n \in keys |->
            LET mine == SelectSeq(all, LAMBDA t : map_key(t.name) = n)
            IN  [k \in 1..Len(mine) |-> entry(mine[k])]]

\* get_duplicates (lines 486-492)
get_duplicates(pm) ==
    [n \in {m \in DOMAIN pm : Len(pm[m]) > 1} |-> pm[n]]

\* get_version_conflicts keyed on the number of installs instead of the
\* number of distinct versions
get_version_conflicts_by_count(pm) ==
    [n \in {m \in DOMAIN pm : Len(pm[m]) > 1} |->
        {pm[n][k][1] : k \in 1..Len(pm[n])}]

\* get_version_conflicts (lines 494-501)
get_version_conflicts(pm) ==
    LET versions(n) == {pm[n][k][1] : k \in 1..Len(pm[n])}
    IN  [n \in {m \in DOMAIN pm : Cardinality(versions(m)) > 1} |-> versions(n)]

TuiIdle == TuiInit

AnInit ==
    /\ an_venvs \in VenvLists
    /\ an_phase = "new"
    /\ package_map = << >>
    /\ an_duplicates = << >>
    /\ an_conflicts = << >>

\* PackageAnalyzer.__init__ (lines 471-474)
AnBuild ==
    /\ an_phase = "new"
    /\ package_map' = build_map(an_venvs)
    /\ an_phase' = "built"
    /\ UNCHANGED <<an_venvs, an_duplicates, an_conflicts>>
    /\ UNCHANGED <<tui_vars, dv_vars, cli_vars>>

\* a call of get_duplicates
AnDuplicates ==
    /\ an_phase \in {"built", "conflicts"}
    /\ an_duplicates' = get_duplicates(package_map)
    /\ an_phase' = IF an_phase = "built" THEN "duplicates" ELSE "both"
    /\ UNCHANGED <<an_venvs, package_map, an_conflicts>>
    /\ UNCHANGED <<tui_vars, dv_vars, cli_vars>>

\* a call of get_version_conflicts
AnConflicts ==
    /\ an_phase \in {"built", "duplicates"}
    /\ an_conflicts' = get_version_conflicts(package_map)
    /\ an_phase' = IF an_phase = "built" THEN "conflicts" ELSE "both"
    /\ UNCHANGED <<an_venvs, package_map, an_duplicates>>
    /\ UNCHANGED <<tui_vars, dv_vars, cli_vars>>

AnNext == AnBuild \/ AnDuplicates \/ AnConflicts

(***************************************************************************)
(* Discovery: find_venvs (lines 393-462) and find_python_interpreters      *)
(* (lines 198-250) over a file system.  A path is a sequence of names, a   *)
(* name a string; "/" is the empty path.  The file system is a fixed tree  *)
(* of directories and executable files, a set of directories that hold an  *)
(* environment marker (dv_marked) and a set of symbolic links (dv_links).  *)
(***************************************************************************)
\* the values of max_depth that are explored: 0..MaxScanDepth
MaxScanDepth == 2

HOME == <<<<"h">>>>

Dirs == {
    <<<<"h">>>>,
    <<<<"h">>, <<"a">>>>,
    <<<<"h">>, <<"a">>, <<".", "v", "e", "n", "v">>>>,
    <<<<"h">>, <<"a">>, <<"b">>>>,
    <<<<"h">>, <<"a">>, <<"b">>, <<".", "v", "e", "n", "v">>>>,
    <<<<"h">>, <<"a">>, <<"b">>, <<"c">>>>,
    <<<<"h">>, <<"a">>, <<"b">>, <<"c">>, <<"v", "e", "n", "v">>>>,
    <<<<"h">>, <<".", "c", "a", "c", "h", "e">>>>,
    <<<<"h">>, <<".", "c", "a", "c", "h", "e">>, <<"v", "e", "n", "v">>>>,
    <<<<"h">>, <<"n", "o", "d", "e", "_", "m", "o", "d", "u", "l", "e", "s">>>>,
    <<<<"h">>, <<"n", "o", "d", "e", "_", "m", "o", "d", "u", "l", "e", "s">>, <<"v", "e", "n", "v">>>>,
    <<<<"h">>, <<"b", "i", "n">>>>,
    <<<<"o", "p", "t">>>>,
    <<<<"o", "p", "t">>, <<"a", "n", "a", "c", "o", "n", "d", "a", "3">>>>,
    <<<<"o", "p", "t">>, <<"a", "n", "a", "c", "o", "n", "d", "a", "3">>, <<"e", "n", "v", "s">>>>,
    <<<<"o", "p", "t">>, <<"a", "n", "a", "c", "o", "n", "d", "a", "3">>, <<"e", "n", "v", "s">>, <<"x">>>>,
    <<<<"o", "p", "t">>, <<"a", "n", "a", "c", "o", "n", "d", "a", "3">>, <<"e", "n", "v", "s">>, <<"x">>, <<"b", "i", "n">>>> }

\* regular files with the executable bit
Execs == {
    <<<<"o", "p", "t">>, <<"a", "n", "a", "c", "o", "n", "d", "a", "3">>, <<"e", "n", "v", "s">>, <<"x">>, <<"b", "i", "n">>, <<"p", "y", "t", "h", "o", "n">>>>,
    <<<<"h">>, <<"b", "i", "n">>, <<"p", "y", "t", "h", "o", "n", "2">>>> }

\* environments below a hidden and below an excluded directory, present in
\* every file system of the model
SkippedEnvs == {
    <<<<"h">>, <<".", "c", "a", "c", "h", "e">>, <<"v", "e", "n", "v">>>>,
    <<<<"h">>, <<"n", "o", "d", "e", "_", "m", "o", "d", "u", "l", "e", "s">>, <<"v", "e", "n", "v">>>> }

\* the other directories that may hold pyvenv.cfg or an activation script
Markable == {
    <<<<"h">>, <<"a">>>>,
    <<<<"h">>, <<"a">>, <<".", "v", "e", "n", "v">>>>,
    <<<<"h">>, <<"a">>, <<"b">>>>,
    <<<<"h">>, <<"a">>, <<"b">>, <<".", "v", "e", "n", "v">>>>,
    <<<<"h">>, <<"a">>, <<"b">>, <<"c">>, <<"v", "e", "n", "v">>>>,
    <<<<"o", "p", "t">>, <<"a", "n", "a", "c", "o", "n", "d", "a", "3">>, <<"e", "n", "v", "s">>, <<"x">>>> }

\* symbolic links to files, present in every file system of the model
FileLinks ==
    (<<<<"o", "p", "t">>, <<"a", "n", "a", "c", "o", "n", "d", "a", "3">>, <<"e", "n", "v", "s">>, <<"x">>, <<"b", "i", "n">>, <<"p", "y", "t", "h", "o", "n", "3">>>>
        :> <<<<"o", "p", "t">>, <<"a", "n", "a", "c", "o", "n", "d", "a", "3">>, <<"e", "n", "v", "s">>, <<"x">>, <<"b", "i", "n">>, <<"p", "y", "t", "h", "o", "n">>>>)
    @@ (<<<<"h">>, <<"b", "i", "n">>, <<"p", "y", "t", "h", "o", "n", "3">>>>
        :> <<<<"o", "p", "t">>, <<"a", "n", "a", "c", "o", "n", "d", "a", "3">>, <<"e", "n", "v", "s">>, <<"x">>, <<"b", "i", "n">>, <<"p", "y", "t", "h", "o", "n">>>>)

\* the file systems differ in their symbolic links to directories; the last
\* one closes a cycle
LinkOptions == {
    FileLinks,
    FileLinks @@ (<<<<"h">>, <<"a", "n", "a", "c", "o", "n", "d", "a", "3">>>> :> <<<<"o", "p", "t">>, <<"a", "n", "a", "c", "o", "n", "d", "a", "3">>>>),
    FileLinks @@ (<<<<"h">>, <<"l", "n", "k">>>> :> <<<<"h">>, <<"a">>>>),
    FileLinks @@ (<<<<"h">>, <<"a">>, <<"u", "p">>>> :> <<<<"h">>>>) }

\* the values of scan_path after expanduser
ScanPaths == {HOME, <<<<"h">>, <<".">>>>, <<<<"h">>, <<"l", "n", "k">>>>}

\* the values of the PATH environment variable
PathEnvs == {
    << <<<<"h">>, <<"b", "i", "n">>>> >>,
    << <<<<"h">>, <<"b", "i", "n">>>>, <<<<"o", "p", "t">>, <<"a", "n", "a", "c", "o", "n", "d", "a", "3">>, <<"e", "n", "v", "s">>, <<"x">>, <<"b", "i", "n">>>> >> }

\* two of the base directories of MANAGER_PATHS["conda"] (lines 47-48):
\* ~/anaconda3/envs and /opt/anaconda3/envs
MANAGER_BASES == << <<<<"h">>, <<"a", "n", "a", "c", "o", "n", "d", "a", "3">>, <<"e", "n", "v", "s">>>>, <<<<"o", "p", "t">>, <<"a", "n", "a", "c", "o", "n", "d", "a", "3">>, <<"e", "n", "v", "s">>>> >>

\* the order in which os.scandir yields names
NAMES == <<<<"a">>, <<"b">>, <<"c">>, <<".", "v", "e", "n", "v">>, <<"v", "e", "n", "v">>, <<".", "c", "a", "c", "h", "e">>, <<"n", "o", "d", "e", "_", "m", "o", "d", "u", "l", "e", "s">>, <<"b", "i", "n">>,
           <<"a", "n", "a", "c", "o", "n", "d", "a", "3">>, <<"e", "n", "v", "s">>, <<"l", "n", "k">>, <<"o", "p", "t">>, <<"x">>, <<"p", "y", "t", "h", "o", "n">>, <<"p", "y", "t", "h", "o", "n", "2">>, <<"p", "y", "t", "h", "o", "n", "3">>>>

SCAN_EXCLUDED == {<<"n", "o", "d", "e", "_", "m", "o", "d", "u", "l", "e", "s">>, <<"L", "i", "b", "r", "a", "r", "y">>, <<"A", "p", "p", "l", "i", "c", "a", "t", "i", "o", "n", "s">>, <<".", "g", "i", "t">>, <<"_", "_", "p", "y", "c", "a", "c", "h", "e", "_", "_">>}

PY_NAMES == <<<<"p", "y", "t", "h", "o", "n">>, <<"p", "y", "t", "h", "o", "n", "3">>, <<"p", "y", "t", "h", "o", "n", "2">>>>

\* the result of resolving a path that does not exist
Missing == << <<"?">> >>

\* os.path.realpath for an existing path: the links of every component are
\* followed; Missing when a component does not exist
RECURSIVE resolve_from(_, _, _)
resolve_from(cur, p, k) ==
    IF cur = Missing THEN Missing
    ELSE IF k > Len(p) THEN cur
    ELSE IF p[k] = <<".">> THEN resolve_from(cur, p, k + 1)
    ELSE LET next == Append(cur, p[k])
         IN  IF next \in DOMAIN dv_links THEN resolve_from(dv_links[next], p, k + 1)
             ELSE IF next \in Dirs \cup Execs THEN resolve_from(next, p, k + 1)
             ELSE Missing

realpath(p) == resolve_from(<< >>, p, 1)

\* os.path.abspath of an absolute path: "." components are dropped, links
\* are not followed
abspath(p) == SelectSeq(p, LAMBDA name : name # <<".">>)

\* os.path.exists / os.path.isdir, which follow links
exists(p) == realpath(p) # Missing
isdir(p) == realpath(p) \in Dirs

\* exists(p) and os.access(p, os.X_OK) for a python file
is_executable(p) == realpath(p) \in Execs

\* is_venv (lines 380-391)
is_venv(p) == isdir(p) /\ realpath(p) \in dv_marked

\* the names of the entries of os.scandir(p) for which
\* entry.is_dir(follow_symlinks=False) holds: the real sub-directories
dir_entries(p) ==
    LET real == realpath(p)
    IN  SelectSeq(NAMES, LAMBDA name : Append(real, name) \in Dirs)

\* `abs_path = os.path.abspath(entry.path); if abs_path not in found_paths:
\*  found_paths.add(abs_path); venvs.append(VirtualEnv(abs_path))`
add_venv(acc, p, source) ==
    IF abspath(p) \in acc.found THEN acc
    ELSE [acc EXCEPT !.found = @ \cup {abspath(p)},
                     !.venvs = Append(@, [path |-> abspath(p), source |-> source])]

\* the loop over the entries names[k..] of one base directory (lines 404-410)
RECURSIVE known_entries(_, _, _, _)
known_entries(base, names, k, acc) ==
    IF k > Len(names) THEN acc
    ELSE LET path == Append(base, names[k])
         IN  known_entries(base, names, k + 1,
                           IF is_venv(path) THEN add_venv(acc, path, "known") ELSE acc)

\* the loop over the base directories of MANAGER_PATHS (lines 398-412)
RECURSIVE known_locations(_, _)
known_locations(b, acc) ==
    IF b > Len(MANAGER_BASES) THEN acc
    ELSE IF ~exists(MANAGER_BASES[b]) THEN known_locations(b + 1, acc)
    ELSE known_locations(b + 1,
            known_entries(MANAGER_BASES[b], dir_entries(MANAGER_BASES[b]), 1, acc))

\* a directory on which os.scandir fails, and how: with PermissionError, or
\* with FileNotFoundError because the directory was removed after its parent
\* was listed
NoFault == [dir |-> << >>, kind |-> "none"]
Faults == {
    NoFault,
    [dir |-> <<<<"h">>, <<"b", "i", "n">>>>, kind |-> "PermissionError"],
    [dir |-> <<<<"h">>, <<"b", "i", "n">>>>, kind |-> "FileNotFoundError"] }

\* the exception of os.scandir(root) in scan_dir (line 422), "none" without
scandir_error(root) ==
    IF abspath(root) = dv_fault.dir THEN dv_fault.kind
    ELSE IF ~isdir(root) THEN "FileNotFoundError"
    ELSE "none"

\* the depth test of scan_dir, one level later
depth_exceeded_late(depth, max_depth) == depth > max_depth + 1

\* `if depth > max_depth: return` (lines 418-419)
depth_exceeded(depth, max_depth) == depth > max_depth

\* scan_dir (lines 416-440) and its loop over the entries names[k..]
RECURSIVE scan_dir(_, _, _, _)
RECURSIVE scan_entries(_, _, _, _, _, _)
scan_dir(root, depth, max_depth, acc) ==
    IF depth_exceeded(depth, max_depth) THEN acc
    ELSE IF scandir_error(root) = "PermissionError" THEN acc
    ELSE IF scandir_error(root) = "FileNotFoundError" THEN [acc EXCEPT !.raised = TRUE]
    ELSE scan_entries(root, dir_entries(root), 1, depth, max_depth,
                      [acc EXCEPT !.listed = @ \cup {root}])

scan_entries(root, names, k, depth, max_depth, acc) ==
    IF k > Len(names) \/ acc.raised THEN acc
    ELSE
      LET name == names[k]
          path == Append(root, name)
          in_project_names == \E q \in 1..Len(PROJECT_VENV_NAMES) : name = PROJECT_VENV_NAMES[q]
      IN  IF StartsWith(name, <<".">>) /\ ~in_project_names
          THEN scan_entries(root, names, k + 1, depth, max_depth, acc)
          ELSE IF name \in SCAN_EXCLUDED
          THEN scan_entries(root, names, k + 1, depth, max_depth, acc)
          ELSE IF is_venv(path)
          THEN scan_entries(root, names, k + 1, depth, max_depth, add_venv(acc, path, "scan"))
          ELSE scan_entries(root, names, k + 1, depth, max_depth,
                            scan_dir(path, depth + 1, max_depth, acc))

\* the outputs of `mdfind kMDItemFSName == pyvenv.cfg` on Darwin, each line
\* already reduced to its directory (line 453); << >> when the index is not
\* used or the platform is not Darwin
MdfindOutputs == {
    << >>,
    << <<<<"o", "p", "t">>, <<"a", "n", "a", "c", "o", "n", "d", "a", "3">>, <<"e", "n", "v", "s">>, <<"x">>>>, <<<<"h">>, <<"a">>, <<"b">>, <<"c">>, <<"v", "e", "n", "v">>>> >> }

\* the loop over the lines of mdfind (lines 451-458)
RECURSIVE mdfind_venvs(_, _, _)
mdfind_venvs(lines, k, acc) ==
    IF k > Len(lines) THEN acc
    ELSE mdfind_venvs(lines, k + 1,
            IF is_venv(lines[k]) THEN add_venv(acc, lines[k], "mdfind") ELSE acc)

\* find_venvs (lines 393-462); "raised" when an os.scandir of the scan fails with
\* an exception other than PermissionError
find_venvs(scan_path, mdfind_lines, max_depth) ==
    LET start == [found |-> {}, venvs |-> << >>, listed |-> {}, raised |-> FALSE]
        known == known_locations(1, start)
        scanned == scan_dir(scan_path, 0, max_depth, known)
    IN  IF scanned.raised THEN scanned
        ELSE mdfind_venvs(mdfind_lines, 1, scanned)

\* `abs_path = os.path.abspath(os.path.realpath(py_path)); if abs_path not in
\*  found_paths: found_paths.add(abs_path); interpreters.append(...)`
add_interpreter(acc, py_path) ==
    IF ~is_executable(py_path) THEN acc
    ELSE LET abs_path == abspath(realpath(py_path))
         IN  IF abs_path \in acc.found THEN acc
             ELSE [found |-> acc.found \cup {abs_path},
                   interpreters |-> Append(acc.interpreters, abs_path)]

\* `for py_name in ['python', 'python3', 'python2']` in one bin directory
RECURSIVE bin_pythons(_, _, _)
bin_pythons(bin_dir, n, acc) ==
    IF n > Len(PY_NAMES) THEN acc
    ELSE bin_pythons(bin_dir, n + 1, add_interpreter(acc, Append(bin_dir, PY_NAMES[n])))

\* the loop over the entries names[k..] of one base directory (lines 209-219)
RECURSIVE interpreter_entries(_, _, _, _)
interpreter_entries(base, names, k, acc) ==
    IF k > Len(names) THEN acc
    ELSE LET bin_dir == Append(Append(base, names[k]), <<"b", "i", "n">>)
         IN  interpreter_entries(base, names, k + 1,
                IF isdir(bin_dir) THEN bin_pythons(bin_dir, 1, acc) ELSE acc)

\* the loop over the base directories of MANAGER_PATHS (lines 203-221)
RECURSIVE interpreter_locations(_, _)
interpreter_locations(b, acc) ==
    IF b > Len(MANAGER_BASES) THEN acc
    ELSE IF ~exists(MANAGER_BASES[b]) THEN interpreter_locations(b + 1, acc)
    ELSE interpreter_locations(b + 1,
            interpreter_entries(MANAGER_BASES[b], dir_entries(MANAGER_BASES[b]), 1, acc))

\* the loop over the directories of PATH (lines 223-232)
RECURSIVE path_interpreters(_, _, _)
path_interpreters(path_env, k, acc) ==
    IF k > Len(path_env) THEN acc
    ELSE path_interpreters(path_env, k + 1,
            IF isdir(path_env[k]) THEN bin_pythons(path_env[k], 1, acc) ELSE acc)

\* the lines of `mdfind kMDItemFSName == python3` (line 237) when the index
\* is used: the entries named python3
mdfind_python3(mdfind_lines) ==
    IF mdfind_lines = << >> THEN << >>
    ELSE << <<<<"h">>, <<"b", "i", "n">>, <<"p", "y", "t", "h", "o", "n", "3">>>>,
            <<<<"o", "p", "t">>, <<"a", "n", "a", "c", "o", "n", "d", "a", "3">>, <<"e", "n", "v", "s">>, <<"x">>, <<"b", "i", "n">>, <<"p", "y", "t", "h", "o", "n", "3">>>> >>

\* the loop over the lines of mdfind (lines 241-246)
RECURSIVE mdfind_interpreters(_, _, _)
mdfind_interpreters(lines, k, acc) ==
    IF k > Len(lines) THEN acc
    ELSE mdfind_interpreters(lines, k + 1, add_interpreter(acc, lines[k]))

\* find_python_interpreters (lines 198-250)
find_python_interpreters(path_env, mdfind_lines) ==
    mdfind_interpreters(mdfind_python3(mdfind_lines), 1,
        path_interpreters(path_env, 1,
            interpreter_locations(1, [found |-> {}, interpreters |-> << >>])))

\* pyenvhunter.py: the base directories of MANAGER_PATHS["conda"] (line 59),
\* ~/miniconda3/envs and ~/anaconda3/envs
HUNTER_MANAGER_BASES == {<<<<"h">>, <<"m", "i", "n", "i", "c", "o", "n", "d", "a", "3">>, <<"e", "n", "v", "s">>>>, <<<<"h">>, <<"a", "n", "a", "c", "o", "n", "d", "a", "3">>, <<"e", "n", "v", "s">>>>}

\* pyenvhunter.py is_venv_dir (lines 63-71)
is_venv_dir(p) == isdir(p) /\ realpath(p) \in dv_marked

\* the paths os.scandir(p) yields with entry.is_dir(follow_symlinks=False)
dir_children(p) ==
    {Append(p, dir_entries(p)[k]) : k \in 1..Len(dir_entries(p))}

\* the first loop of find_envs (lines 83-97): every direct child directory
\* of an existing manager base is added
hunter_manager_children ==
    UNION {{abspath(c) : c \in dir_children(mp)} :
              mp \in {b \in HUNTER_MANAGER_BASES : exists(b)}}

\* the scan one level deeper below a directory named versions, envs, venvs or
\* virtualenvs (lines 121-130)
hunter_deeper(cand) ==
    {abspath(child) : child \in
        {c \in dir_children(cand) :
            \/ is_venv_dir(c)
            \/ LET name == c[Len(c)]
               IN  Len(name) >= 5 /\ SubSeq(name, Len(name) - 4, Len(name)) = <<".", "v", "e", "n", "v">>}}

\* the body of the second loop of find_envs for one base (lines 98-143)
hunter_base(given) ==
    LET base == IF realpath(given) \in Execs THEN SubSeq(given, 1, Len(given) - 1)
                ELSE given
    IN  IF ~exists(base) THEN {}
        ELSE IF is_venv_dir(base) THEN {abspath(base)}
        ELSE UNION {IF is_venv_dir(cand) THEN {abspath(cand)}
                    ELSE IF Lower(cand[Len(cand)]) \in
                               {<<"v", "e", "r", "s", "i", "o", "n", "s">>, <<"e", "n", "v", "s">>, <<"v", "e", "n", "v", "s">>, <<"v", "i", "r", "t", "u", "a", "l", "e", "n", "v", "s">>}
                    THEN hunter_deeper(cand)
                    ELSE {} : cand \in dir_children(base)}

\* find_envs (lines 74-144): the paths of the sorted list it returns
find_envs(paths) ==
    hunter_manager_children \cup UNION {hunter_base(paths[k]) : k \in 1..Len(paths)}

\* the `paths` of a pyenvhunter scan: the scan path and /opt/anaconda3
HunterPaths == <<dv_scan_path, <<<<"o", "p", "t">>, <<"a", "n", "a", "c", "o", "n", "d", "a", "3">>>> >>

DvInit ==
    /\ dv_links \in LinkOptions
    /\ dv_marked \in {SkippedEnvs \cup m : m \in SUBSET Markable}
    /\ dv_max_depth \in 0..MaxScanDepth
    /\ dv_scan_path \in ScanPaths
    /\ dv_mdfind \in MdfindOutputs
    /\ dv_path_env \in PathEnvs
    /\ dv_fault \in IF dv_links = FileLinks /\ dv_mdfind = << >>
                        /\ dv_path_env = << <<<<"h">>, <<"b", "i", "n">>>> >>
                    THEN Faults ELSE {NoFault}
    /\ dv_phase = "new"
    /\ dv_venvs = << >>
    /\ dv_interpreters = << >>
    /\ dv_listed = {}
    /\ dv_envs = {}

dv_inputs == <<dv_links, dv_marked, dv_max_depth, dv_scan_path, dv_mdfind, dv_path_env,
               dv_fault>>

\* one call of find_venvs, as cmd_scan and the TUI start-up make it
DvFindVenvs ==
    /\ dv_phase \in {"new", "interpreters"}
    /\ LET r == find_venvs(dv_scan_path, dv_mdfind, dv_max_depth)
       IN  /\ dv_venvs' = r.venvs
           /\ dv_listed' = r.listed
           /\ dv_phase' = IF r.raised THEN "raised"
                          ELSE IF dv_phase = "new" THEN "venvs" ELSE "both"
    /\ UNCHANGED <<dv_inputs, dv_interpreters, dv_envs, tui_vars, an_vars, cli_vars>>

\* one call of find_python_interpreters
DvFindInterpreters ==
    /\ dv_phase \in {"new", "venvs"}
    /\ dv_interpreters' = find_python_interpreters(dv_path_env, dv_mdfind).interpreters
    /\ dv_phase' = IF dv_phase = "new" THEN "interpreters" ELSE "both"
    /\ UNCHANGED <<dv_inputs, dv_venvs, dv_listed, dv_envs, tui_vars, an_vars, cli_vars>>

\* one call of pyenvhunter's find_envs, as its scan makes it (line 211)
DvFindEnvs ==
    /\ dv_phase = "new"
    /\ dv_envs' = find_envs(HunterPaths)
    /\ dv_phase' = "envs"
    /\ UNCHANGED <<dv_inputs, dv_venvs, dv_interpreters, dv_listed, tui_vars, an_vars,
                   cli_vars>>

DvNext == DvFindVenvs \/ DvFindInterpreters \/ DvFindEnvs

(***************************************************************************)
(* The probes of one VirtualEnv object: run_python_command (lines          *)
(* 117-128), the version probe of _detect_info (lines 299-302),            *)
(* probe_packages (lines 330-348) and uninstall_package (lines 350-366),   *)
(* for every way the external process can end.                             *)
(***************************************************************************)
\* number of probe calls made on the object
MaxProbeCalls == 2

\* how subprocess.run ends: with an exit status, with
\* subprocess.TimeoutExpired (a SubprocessError), with FileNotFoundError
\* (missing executable) or with another OSError of the spawn (PermissionError,
\* exec format error)
ProcessEnds == {"exit0", "nonzero", "timeout", "missing", "oserror"}

\* what the process printed, named by its shape: a JSON list of
\* {name, version} objects; an empty output; text that is not JSON; a JSON
\* list with an entry that lacks "version"; a JSON value that is no list
StdoutShapes == {"packages", "empty", "not_json", "entry_without_version", "not_a_list"}

ProcessOutcomes == {[ends |-> e, stdout |-> s] :
                        e \in ProcessEnds, s \in StdoutShapes}

\* the exceptions the three callers catch: `except (subprocess.SubprocessError,
\* FileNotFoundError)` (lines 126, 365), and with json.JSONDecodeError (line 347)
caught_spawn_errors == {"timeout", "missing"}

\* does subprocess.run raise an exception that the `except` clause lets through
spawn_escapes(out) ==
    out.ends \notin {"exit0", "nonzero"} /\ out.ends \notin caught_spawn_errors

\* the text of sys.version printed by a working interpreter, two lines
VersionText == <<"3", ".", "1", "1", " ", "A">>

\* run_python_command (lines 117-128): the stripped output, NoVersion for
\* None
run_python_command(out) ==
    IF spawn_escapes(out) THEN [raised |-> TRUE, value |-> NoVersion]
    ELSE IF out.ends = "exit0"
         THEN [raised |-> FALSE,
               value |-> IF out.stdout = "empty" THEN << >> ELSE VersionText]
    ELSE [raised |-> FALSE, value |-> NoVersion]

\* the version probe of VirtualEnv._detect_info (lines 299-302):
\* `if ver: self.python_version = ver.split('\n')[0]`
detect_version(has_python, out) ==
    IF ~has_python THEN [raised |-> FALSE, version |-> NoVersion]
    ELSE LET r == run_python_command(out)
         IN  [raised |-> r.raised,
              version |-> IF r.raised \/ r.value = NoVersion \/ r.value = << >>
                          THEN NoVersion ELSE r.value]

\* the packages a well-formed `pip list --format=json` reports for the object
ListedPackages == <<Package(<<"r">>, <<"1">>), Package(<<"f">>, <<"1">>)>>

\* json.loads(result.stdout) and the list comprehension of lines 343-344:
\* "ok", "JSONDecodeError", or "escapes" for the KeyError / TypeError of a
\* value of another shape
parse_packages(stdout) ==
    CASE stdout = "packages" -> "ok"
      [] stdout \in {"empty", "not_json"} -> "JSONDecodeError"
      [] OTHER -> "escapes"

\* VirtualEnv.probe_packages(force) (lines 330-348) from cache (pkgs, loaded)
VirtualEnv_probe_packages(has_python, pkgs, loaded, force, out) ==
    LET same == [raised |-> FALSE, packages |-> pkgs, loaded |-> loaded,
                 spawned |-> FALSE]
        ran == [same EXCEPT !.spawned = TRUE]
    IN  IF loaded /\ ~force THEN same
        ELSE IF ~has_python THEN same
        ELSE IF spawn_escapes(out) THEN [ran EXCEPT !.raised = TRUE]
        ELSE IF out.ends # "exit0" THEN ran
        ELSE CASE parse_packages(out.stdout) = "ok" ->
                    [raised |-> FALSE, packages |-> ListedPackages, loaded |-> TRUE,
                     spawned |-> TRUE]
               [] parse_packages(out.stdout) = "JSONDecodeError" -> ran
               [] OTHER -> [ran EXCEPT !.raised = TRUE]

\* VirtualEnv.uninstall_package(name, dry_run) (lines 350-366): the value
\* returned
VirtualEnv_uninstall_package(has_python, dry_run, out) ==
    IF ~has_python THEN [raised |-> FALSE, value |-> FALSE]
    ELSE IF dry_run THEN [raised |-> FALSE, value |-> TRUE]
    ELSE IF spawn_escapes(out) THEN [raised |-> TRUE, value |-> FALSE]
    ELSE [raised |-> FALSE, value |-> out.ends = "exit0"]

PrInit ==
    /\ pr_has_python \in BOOLEAN
    /\ pr_version = NoVersion
    /\ pr_packages = << >>
    /\ pr_loaded = FALSE
    /\ pr_op = "none"
    /\ pr_force = FALSE
    /\ pr_spawned = FALSE
    /\ pr_outcome = [ends |-> "exit0", stdout |-> "packages"]
    /\ pr_raised = FALSE
    /\ pr_ret = "none"
    /\ pr_calls = 0


\* the version probe of the constructor
PrDetectVersion ==
    /\ pr_calls = 0
    /\ \E out \in ProcessOutcomes :
         LET r == detect_version(pr_has_python, out)
         IN  /\ pr_version' = r.version
             /\ pr_op' = "get_version"
             /\ pr_force' = FALSE
             /\ pr_spawned' = pr_has_python
             /\ pr_outcome' = out
             /\ pr_raised' = r.raised
             /\ pr_ret' = IF r.raised THEN "none"
                          ELSE IF r.version = NoVersion THEN "unknown" ELSE "value"
    /\ pr_calls' = pr_calls + 1
    /\ UNCHANGED <<pr_has_python, pr_packages, pr_loaded, pr_rest>>

\* a call of probe_packages
PrProbePackages ==
    /\ pr_calls < MaxProbeCalls
    /\ ~pr_raised
    /\ \E out \in ProcessOutcomes, force \in BOOLEAN :
         LET r == VirtualEnv_probe_packages(pr_has_python, pr_packages, pr_loaded,
                                            force, out)
         IN  /\ pr_packages' = r.packages
             /\ pr_loaded' = r.loaded
             /\ pr_op' = "probe_packages"
             /\ pr_force' = force
             /\ pr_spawned' = r.spawned
             /\ pr_outcome' = out
             /\ pr_raised' = r.raised
             /\ pr_ret' = IF r.raised THEN "none"
                          ELSE IF r.loaded THEN "value" ELSE "unknown"
    /\ pr_calls' = pr_calls + 1
    /\ UNCHANGED <<pr_has_python, pr_version, pr_rest>>

\* a call of uninstall_package
PrUninstall ==
    /\ pr_calls < MaxProbeCalls
    /\ ~pr_raised
    /\ \E out \in ProcessOutcomes, dry_run \in BOOLEAN :
         LET r == VirtualEnv_uninstall_package(pr_has_python, dry_run, out)
         IN  /\ pr_op' = IF dry_run THEN "uninstall_dry_run" ELSE "uninstall_package"
             /\ pr_force' = FALSE
             /\ pr_spawned' = (pr_has_python /\ ~dry_run)
             /\ pr_outcome' = out
             /\ pr_raised' = r.raised
             /\ pr_ret' = IF r.raised THEN "none"
                          ELSE IF r.value THEN "True" ELSE "False"
    /\ pr_calls' = pr_calls + 1
    /\ UNCHANGED <<pr_has_python, pr_version, pr_packages, pr_loaded, pr_rest>>

PrNext == PrDetectVersion \/ PrProbePackages \/ PrUninstall

(***************************************************************************)
(* The manager tag of a path: PythonInterpreter._detect_info and           *)
(* VirtualEnv._detect_info (VirtualEnv_manager, PythonInterpreter_manager  *)
(* above) applied to paths that hold every combination of up to            *)
(* MaxFragments of the directory names the two rule chains look for.       *)
(***************************************************************************)
\* how many manager names one path holds
MaxFragments == 3

\* directory names as the managers write them, one for every substring test
\* of lines 168-178 and 305-320
FRAGMENTS == <<
    <<".", "p", "y", "e", "n", "v">>, <<".", "a", "s", "d", "f">>, <<"m", "i", "n", "i", "c", "o", "n", "d", "a", "3">>, <<"C", "e", "l", "l", "a", "r">>, <<"p", "i", "p", "x">>, <<"p", "y", "p", "o", "e", "t", "r", "y">>,
    <<"v", "i", "r", "t", "u", "a", "l", "e", "n", "v", "s">>, <<"h", "a", "t", "c", "h">>, <<"p", "d", "m">>, <<"u", "v">> >>

RECURSIVE join_fragments(_, _)
\* the path `base/f1/f2/...` for the fragments numbered by order
join_fragments(base, order) ==
    IF order = << >> THEN base
    ELSE join_fragments(base \o <<"/">> \o FRAGMENTS[Head(order)], Tail(order))

\* the paths classified: under the home directory with the fragments in
\* ascending or descending order, and two interpreters outside it
ClassifiedPaths ==
    LET orders == UNION {[1..n -> 1..Len(FRAGMENTS)] : n \in 0..MaxFragments}
        up(s) == \A i \in 1..(Len(s) - 1) : s[i] < s[i + 1]
        down(s) == \A i \in 1..(Len(s) - 1) : s[i] > s[i + 1]
    IN  {join_fragments(<<"/", "h">>, s) \o <<"/", "e">> : s \in {o \in orders : up(o) \/ down(o)}}
            \cup {<<"/", "u", "s", "r", "/", "b", "i", "n", "/", "p", "y", "t", "h", "o", "n", "3">>, <<"/", "u", "s", "r", "/", "l", "o", "c", "a", "l", "/", "b", "i", "n", "/", "p", "y", "t", "h", "o", "n", "3">>}

ClInit ==
    /\ cl_path \in ClassifiedPaths
    /\ cl_kind = "none"
    /\ cl_manager = << >>

\* VirtualEnv(path): the manager of lines 304-322
ClVirtualEnv ==
    /\ cl_kind = "none"
    /\ cl_kind' = "environment"
    /\ cl_manager' = VirtualEnv_manager(cl_path)
    /\ UNCHANGED <<cl_path, cl_rest>>

\* PythonInterpreter(path): the manager of lines 167-181
ClPythonInterpreter ==
    /\ cl_kind = "none"
    /\ cl_kind' = "interpreter"
    /\ cl_manager' = PythonInterpreter_manager(cl_path)
    /\ UNCHANGED <<cl_path, cl_rest>>

ClNext == ClVirtualEnv \/ ClPythonInterpreter

(***************************************************************************)
(* `scan --json FILE` of both programs: the environments found are probed  *)
(* by a ThreadPoolExecutor of `parallel` workers and the records are       *)
(* written as one JSON array (broomstick.py cmd_scan lines 1435-1459,      *)
(* pyenvhunter.py scan lines 208-224 and cmd_scan lines 267-281).  An      *)
(* environment is named by its position in the list discovery returned.    *)
(***************************************************************************)
\* number of environments discovery returned
MaxExportEnvs == 3
\* --parallel
MaxWorkers == 2

ExPrograms == {"broomstick", "pyenvhunter"}

\* how the probe of one environment ends in its worker thread: with a package
\* list, without one, or with an exception
ExProbeEnds == {"loaded", "unknown", "raise"}

ExInit ==
    /\ ex_args \in [program : ExPrograms, parallel : 1..MaxWorkers,
                    no_packages : BOOLEAN]
    /\ ex_n \in 0..MaxExportEnvs
    /\ ex_completed = << >>
    /\ ex_probe = [i \in 1..ex_n |-> "pending"]
    /\ ex_results = << >>
    /\ ex_written = << >>
    /\ ex_phase = "probing"

\* whether the run hands the environments to a thread pool at all
ex_uses_pool ==
    IF ex_args.program = "broomstick" THEN ~ex_args.no_packages ELSE ex_n > 0

\* the tasks a pool of `parallel` workers has started: it takes them from its
\* queue in the order of submission, one for every free worker
ex_running ==
    {i \in 1..ex_n : /\ \A k \in 1..Len(ex_completed) : ex_completed[k] # i
                     /\ i <= Len(ex_completed) + ex_args.parallel}

\* one worker finishes its probe.  broomstick: v.probe_packages() changes the
\* object v and the iterator of executor.map is never read.  pyenvhunter:
\* as_completed yields the future and its result is appended to `results`, a
\* future that raised is skipped.
ExProbeDone(i, ends) ==
    /\ ex_phase = "probing"
    /\ ex_uses_pool
    /\ i \in ex_running
    /\ ex_args.no_packages => ends # "loaded"
    /\ ex_completed' = Append(ex_completed, i)
    /\ ex_probe' = [ex_probe EXCEPT ![i] = ends]
    /\ ex_results' = IF ex_args.program = "pyenvhunter" /\ ends # "raise"
                     THEN Append(ex_results, [path |-> i, packages |-> ends])
                     ELSE ex_results
    /\ UNCHANGED <<ex_args, ex_n, ex_written, ex_phase, ex_rest>>

\* [v.to_dict() for v in venvs] of broomstick's cmd_scan
ex_venv_dicts ==
    [i \in 1..ex_n |->
        [path |-> i,
         packages |-> IF ex_probe[i] = "loaded" THEN "loaded" ELSE "unknown"]]

\* the pool has been shut down (every task is done) and json.dump writes the
\* array
ExWrite ==
    /\ ex_phase = "probing"
    /\ ex_uses_pool => Len(ex_completed) = ex_n
    /\ ex_written' = IF ex_args.program = "broomstick" THEN ex_venv_dicts
                     ELSE ex_results
    /\ ex_phase' = "written"
    /\ UNCHANGED <<ex_args, ex_n, ex_completed, ex_probe, ex_results, ex_rest>>

ExNext ==
    \/ \E i \in 1..MaxExportEnvs, ends \in ExProbeEnds : ExProbeDone(i, ends)
    \/ ExWrite

(***************************************************************************)
(* `clean` of both programs: broomstick.py cmd_clean (lines 1567-1608) and *)
(* pyenvhunter.py cmd_clean (lines 310-334) with confirm and remove_path   *)
(* (lines 241-264), run on every command line over a small file system.    *)
(* A path is a string; the file system is the set of its directories and   *)
(* the set of its files.                                                   *)
(***************************************************************************)
\* --target was not given (args.target is None)
NoTarget == <<"None">>

\* input() raised EOFError
EofAnswer == <<"EOF">>

\* os.getcwd()
CWD == <<"/", "h">>

CleanTargets ==
    {NoTarget, << >>, <<"/", "h", "/", "e">>, <<"e">>, <<"/", "h", "/", "f">>, <<"/", "h", "/", "g", "o", "n", "e">>, <<"/", "u", "s", "r", "/", "b", "i", "n", "/", "p", "y", "t", "h", "o", "n", "3">>,
     <<"/", "u", "s", "r", "/", "l", "i", "b">>}

\* what the user can type at the prompt of input()
CleanAnswers == {<<"y">>, <<"Y", "e", "s">>, <<" ", "y">>, <<"n">>, << >>, <<"y", "e">>, EofAnswer}

\* the file systems: the environment /h/e and the file /h/f may exist or not
CleanFileSystems ==
    {[dirs |-> {<<"/", "h">>, <<"/", "u", "s", "r">>, <<"/", "u", "s", "r", "/", "b", "i", "n">>, <<"/", "u", "s", "r", "/", "l", "i", "b">>} \cup d,
      files |-> {<<"/", "u", "s", "r", "/", "b", "i", "n", "/", "p", "y", "t", "h", "o", "n", "3">>} \cup f] :
        d \in {{}, {<<"/", "h", "/", "e">>, <<"/", "h", "/", "e", "/", "b", "i", "n">>}},
        f \in {{}, {<<"/", "h", "/", "f">>}}}

CnInit ==
    /\ cn_argv \in [target : CleanTargets, dry_run : BOOLEAN, yes : BOOLEAN]
    /\ cn_fs \in CleanFileSystems
    /\ cn_program = "none"
    /\ cn_answer = NoPrompt
    /\ cn_out = "idle"

\* os.path.abspath of a path without `.` and `..`
clean_abspath(p) == IF StartsWith(p, <<"/">>) THEN p ELSE CWD \o <<"/">> \o p

\* os.path.exists / os.path.isdir
clean_exists(fs, p) == clean_abspath(p) \in fs.dirs \cup fs.files
clean_isdir(fs, p) == clean_abspath(p) \in fs.dirs

\* shutil.rmtree(p) of a directory, os.remove(p) of a file
clean_delete(fs, p) ==
    IF p \in fs.dirs
    THEN [dirs |-> {d \in fs.dirs : d # p /\ ~StartsWith(d, p \o <<"/">>)},
          files |-> {f \in fs.files : ~StartsWith(f, p \o <<"/">>)}]
    ELSE [fs EXCEPT !.files = @ \ {p}]

\* str.strip() of an answer
RECURSIVE Strip(_)
Strip(s) ==
    IF s = << >> THEN s
    ELSE IF Head(s) = " " THEN Strip(Tail(s))
    ELSE IF s[Len(s)] = " " THEN Strip(SubSeq(s, 1, Len(s) - 1))
    ELSE s

\* the gate of broomstick's cmd_clean in front of the delete (lines
\* 1592-1597), taken as always open
bc_proceeds_always(args, answer) == TRUE

\* broomstick cmd_clean, lines 1592-1597: --yes, or the answer of input()
bc_proceeds(args, answer) == args.yes \/ Affirmative(answer)

\* broomstick cmd_clean: the file system it leaves, how it ended and the
\* answer it read; `fault` is whether rmtree / os.remove raises
bc_clean(args, fs, answer, fault) ==
    LET given == args.target # NoTarget /\ args.target # << >>
        target == clean_abspath(args.target)
        end(out, ans, fs2) == [out |-> out, answer |-> ans, fs |-> fs2]
    IN  IF ~given THEN end("no_target", NoPrompt, fs)
        ELSE IF ~clean_exists(fs, target) THEN end("not_exist", NoPrompt, fs)
        ELSE IF is_system_path(target) THEN end("refused", NoPrompt, fs)
        ELSE IF args.dry_run THEN end("dry_run", NoPrompt, fs)
        ELSE IF ~args.yes /\ answer = EofAnswer THEN end("raised", answer, fs)
        ELSE IF ~bc_proceeds(args, answer) THEN end("cancelled", answer, fs)
        ELSE IF fault THEN end("error", IF args.yes THEN NoPrompt ELSE answer, fs)
        ELSE end("deleted", IF args.yes THEN NoPrompt ELSE answer,
                 clean_delete(fs, target))

BcClean ==
    /\ cn_out = "idle"
    /\ \E answer \in CleanAnswers, fault \in BOOLEAN :
          LET r == bc_clean(cn_argv, cn_fs, answer, fault)
          IN  /\ cn_fs' = r.fs
              /\ cn_answer' = r.answer
              /\ cn_out' = r.out
    /\ cn_program' = "broomstick"
    /\ UNCHANGED <<cn_argv, cn_rest>>

\* pyenvhunter build_parser, line 373: `--dry-run` is action="store_true"
\* with default=True
hc_dry_run(flag) == IF flag THEN TRUE ELSE TRUE

\* pyenvhunter cmd_clean, lines 318-323
hc_refused(abs_target) ==
    LET sys_paths == {<<"/", "u", "s", "r">>, <<"/", "u", "s", "r", "/", "b", "i", "n">>, <<"/", "S", "y", "s", "t", "e", "m">>, <<"/", "b", "i", "n">>}
    IN  \E sp \in sys_paths : abs_target = sp \/ StartsWith(abs_target, sp \o <<"/">>)

\* pyenvhunter confirm(prompt)
hc_confirm(answer) ==
    IF answer = EofAnswer THEN FALSE ELSE Lower(Strip(answer)) \in {<<"y">>, <<"y", "e", "s">>}

\* pyenvhunter remove_path(path, dry_run)
hc_remove_path(fs, path, dry_run, fault) ==
    IF dry_run THEN [removed |-> TRUE, fs |-> fs]
    ELSE IF ~clean_isdir(fs, path) THEN [removed |-> FALSE, fs |-> fs]
    ELSE IF fault THEN [removed |-> FALSE, fs |-> fs]
    ELSE [removed |-> TRUE, fs |-> clean_delete(fs, path)]

\* pyenvhunter cmd_clean; argparse requires --target
hc_clean(args, fs, answer, fault) ==
    LET dry_run == hc_dry_run(args.dry_run)
        abs_target == clean_abspath(args.target)
        end(out, ans, fs2) == [out |-> out, answer |-> ans, fs |-> fs2]
        asked == IF args.yes THEN NoPrompt ELSE answer
        removal == hc_remove_path(fs, abs_target, dry_run, fault)
    IN  IF args.target = << >> THEN end("no_target", NoPrompt, fs)
        ELSE IF ~clean_exists(fs, args.target) THEN end("not_exist", NoPrompt, fs)
        ELSE IF hc_refused(abs_target) THEN end("refused", NoPrompt, fs)
        ELSE IF ~(args.yes \/ hc_confirm(answer)) THEN end("aborted", answer, fs)
        ELSE IF dry_run THEN end("dry_run", asked, removal.fs)
        ELSE IF removal.removed THEN end("deleted", asked, removal.fs)
        ELSE end("not_removed", asked, removal.fs)

HcClean ==
    /\ cn_out = "idle"
    /\ cn_argv.target # NoTarget
    /\ \E answer \in CleanAnswers, fault \in BOOLEAN :
          LET r == hc_clean(cn_argv, cn_fs, answer, fault)
          IN  /\ cn_fs' = r.fs
              /\ cn_answer' = r.answer
              /\ cn_out' = r.out
    /\ cn_program' = "pyenvhunter"
    /\ UNCHANGED <<cn_argv, cn_rest>>

CnNext == BcClean \/ HcClean
AnIdle ==
    /\ an_venvs = << >>
    /\ an_phase = "idle"
    /\ package_map = << >>
    /\ an_duplicates = << >>
    /\ an_conflicts = << >>

DvIdle ==
    /\ dv_links = << >>
    /\ dv_marked = {}
    /\ dv_max_depth = 0
    /\ dv_scan_path = << >>
    /\ dv_mdfind = << >>
    /\ dv_path_env = << >>
    /\ dv_fault = [dir |-> << >>, kind |-> "none"]
    /\ dv_phase = "idle"
    /\ dv_venvs = << >>
    /\ dv_interpreters = << >>
    /\ dv_listed = {}
    /\ dv_envs = {}

PrIdle ==
    /\ pr_has_python = FALSE
    /\ pr_version = NoVersion
    /\ pr_packages = << >>
    /\ pr_loaded = FALSE
    /\ pr_op = "idle"
    /\ pr_force = FALSE
    /\ pr_spawned = FALSE
    /\ pr_outcome = [ends |-> "exit0", stdout |-> "packages"]
    /\ pr_raised = FALSE
    /\ pr_ret = "none"
    /\ pr_calls = 0

ClIdle ==
    /\ cl_path = << >>
    /\ cl_kind = "none"
    /\ cl_manager = << >>

ExIdle ==
    /\ ex_args = [program |-> "none", parallel |-> 0, no_packages |-> FALSE]
    /\ ex_n = 0
    /\ ex_completed = << >>
    /\ ex_probe = << >>
    /\ ex_results = << >>
    /\ ex_written = << >>
    /\ ex_phase = "idle"

CnIdle ==
    /\ cn_argv = [target |-> << >>, dry_run |-> FALSE, yes |-> FALSE]
    /\ cn_fs = [dirs |-> {}, files |-> {}]
    /\ cn_program = "none"
    /\ cn_answer = NoPrompt
    /\ cn_out = "idle"

CliIdle == PrIdle /\ ClIdle /\ ExIdle /\ CnIdle

Init == TuiInit /\ AnIdle /\ DvIdle /\ CliIdle

Next == TuiNext

\* the interactive program: BroomstickTUI.run
Spec == Init /\ [][Next]_vars

\* the package analysis: PackageAnalyzer over every list of environments
InitAnalysis == TuiIdle /\ AnInit /\ DvIdle /\ CliIdle

SpecAnalysis == InitAnalysis /\ [][AnNext]_vars

\* discovery: find_venvs and find_python_interpreters over every file system
InitDiscovery == TuiIdle /\ AnIdle /\ DvInit /\ CliIdle

SpecDiscovery == InitDiscovery /\ [][DvNext]_vars

\* the probes of one VirtualEnv object, for every end of the external process
InitProbe == TuiIdle /\ AnIdle /\ DvIdle /\ PrInit /\ ClIdle /\ ExIdle /\ CnIdle

SpecProbe == InitProbe /\ [][PrNext]_vars

\* the manager tag of both classes, for every combination of manager names in
\* a path
InitClassify == TuiIdle /\ AnIdle /\ DvIdle /\ PrIdle /\ ClInit /\ ExIdle /\ CnIdle

SpecClassify == InitClassify /\ [][ClNext]_vars

\* the scan export of both programs, for every completion order of the probes
InitExport == TuiIdle /\ AnIdle /\ DvIdle /\ PrIdle /\ ClIdle /\ ExInit /\ CnIdle

SpecExport == InitExport /\ [][ExNext]_vars

\* `clean` of both programs, for every command line and answer
InitClean == TuiIdle /\ AnIdle /\ DvIdle /\ PrIdle /\ ClIdle /\ ExIdle /\ CnInit

SpecClean == InitClean /\ [][CnNext]_vars

(***************************************************************************)
(* Properties of the interactive program                                   *)
(***************************************************************************)
Range(s) == {s[k] : k \in 1..Len(s)}

\* a search filter is active and the list on screen is the filtered one
\* (_draw_interpreters and _draw_venvs show _get_current_items())
FilterShown ==
    /\ current_view \in {"interpreters", "venvs"}
    /\ search_mode
    /\ filtered_items # << >>
    /\ ~get_current_items_raises

\* C1: with a filter F on screen and the cursor on visible row p, the space
\* key flips the membership of the unfiltered index F[p] in selected_items
\* and, when F[p] # p, leaves the membership of p alone.
C1_SelectionTranslation ==
    [][(/\ KeySpace
        /\ mode \in {"delete", "package"}
        /\ FilterShown
        /\ cursor < Len(filtered_items))
       => LET u == filtered_items[cursor + 1]
          IN  /\ (u \in selected_items') # (u \in selected_items)
              /\ u # cursor => ((cursor \in selected_items') = (cursor \in selected_items))]_vars

\* the environments whose rows _draw_venvs shows as marked under the filter
ShownMarked ==
    {venvs[filtered_items[p + 1] + 1] :
        p \in {q \in 0..(Len(filtered_items) - 1) : filtered_items[q + 1] \in selected_items}}

\* the environments on the visible rows the user marked under the filter
MarkedRows ==
    {venvs[filtered_items[p + 1] + 1] :
        p \in {q \in selected_items : q < Len(filtered_items)}}

\* C2: a delete batch confirmed in the venvs view under a filter F hands to
\* the recursive delete exactly the unprotected environments at the
\* underlying indices F[p] of the marked rows p, and removes no environment
\* whose row was not shown as marked.
C2_DeleteUnderFilter ==
    [][(/\ KeyDelete
        /\ mode = "delete"
        /\ current_view = "venvs"
        /\ FilterShown
        /\ selected_items # {}
        /\ Affirmative(response'))
       => /\ Range(rmtree_calls') = {e \in MarkedRows : ~is_system_path(ENVS[e].path)}
          /\ (fs_dirs \ fs_dirs') \subseteq ShownMarked]_vars

\* C3: in a confirmed delete batch a selected environment under a protected
\* prefix is never handed to shutil.rmtree and keeps its record and its
\* directory, and every other selected environment is still handed to it.
C3_ProtectedPathSafety ==
    [][(/\ mode = "delete"
        /\ current_view = "venvs"
        /\ selected_items # {}
        /\ Affirmative(response')
        /\ KeyDelete)
       => /\ \A e \in Range(venvs) :
                is_system_path(ENVS[e].path)
                => /\ e \notin Range(rmtree_calls')
                   /\ e \in Range(venvs')
                   /\ e \in fs_dirs => e \in fs_dirs'
          /\ \A idx \in selected_items :
                (idx < Len(venvs) /\ ~is_system_path(ENVS[venvs[idx + 1]].path))
                => venvs[idx + 1] \in Range(rmtree_calls')]_vars

\* a confirmed batch over a selection holding a protected environment (it
\* made fewer rmtree calls than it had items) that deleted another one
C3_Witness ==
    /\ current_view = "venvs"
    /\ Affirmative(response)
    /\ Cardinality(batch_selected) > Len(rmtree_calls)
    /\ batch_count >= 1
    /\ \E e \in Range(venvs) : is_system_path(ENVS[e].path)

\* C4: when the answer to the delete or uninstall prompt is not y/yes (in
\* any case of letters), nothing is deleted or uninstalled, no package cache
\* changes, and inventory, selection, cursor, scroll, view and mode are kept.
C4_CancelHasNoEffect ==
    [][(/\ pc = "getch"
        /\ response' # NoPrompt
        /\ Lower(response') \notin {<<"y">>, <<"y", "e", "s">>})
       => /\ UNCHANGED <<tui_fields, env_fields, world>>
          /\ rmtree_calls' = << >>
          /\ uninstall_calls' = << >>]_vars

\* an uninstall prompt over a marked package of a loaded environment was
\* answered with something else than y/yes
C4_Witness ==
    /\ mode = "package"
    /\ current_view = "venv_detail"
    /\ selected_venv # NoVenv
    /\ response # NoPrompt
    /\ ~Affirmative(response)
    /\ \E i \in selected_items : i < Len(packages[selected_venv])

\* the scroll invariant for the list the view presents
ScrollInvariant ==
    LET N == Len(get_current_items)
        H == visible_height
    IN  /\ scroll_offset \in 0..Max(0, N - H)
        /\ N > 0 => cursor \in 0..(N - 1)
        /\ cursor \in scroll_offset..(scroll_offset + H - 1)

\* C5: after a cursor move or a search in a list view, scroll_offset is in
\* [0, max(0, N-H)], the cursor is in [0, N-1] when N > 0 and within the
\* window [scroll_offset, scroll_offset+H-1], N being the length of the
\* current (possibly filtered) list.
C5_ScrollInvariant ==
    [][((KeyUp \/ KeyDown \/ KeySearch) /\ current_view \in ListViews
            /\ ~get_current_items_raises')
       => ScrollInvariant']_vars

(***************************************************************************)
(* Properties of the package analysis                                      *)
(***************************************************************************)
\* the case-folded names installed anywhere, the environments that own a
\* name and the versions it is installed in, read off the package lists
AllNames ==
    {Lower(an_venvs[i][j].name) : <<i, j>> \in
        {<<i, j>> \in (1..Len(an_venvs)) \X (1..MaxAnPkgs) : j <= Len(an_venvs[i])}}
Owners(n) ==
    {i \in 1..Len(an_venvs) : \E j \in 1..Len(an_venvs[i]) : Lower(an_venvs[i][j].name) = n}
VersionsOf(n) ==
    {an_venvs[i][j].version : <<i, j>> \in
        {<<i, j>> \in (1..Len(an_venvs)) \X (1..MaxAnPkgs) :
            j <= Len(an_venvs[i]) /\ Lower(an_venvs[i][j].name) = n}}

\* C6: the keys of get_version_conflicts are keys of get_duplicates, and a
\* name owned by exactly one environment is a key of neither.
C6_ConflictsWithinDuplicates ==
    an_phase = "both"
    => /\ DOMAIN an_conflicts \subseteq DOMAIN an_duplicates
       /\ \A n \in AllNames :
            Cardinality(Owners(n)) = 1
            => n \notin DOMAIN an_duplicates /\ n \notin DOMAIN an_conflicts

\* C7: get_duplicates returns exactly the case-folded names installed in at
\* least 2 distinct environments, each with one (version, environment) entry
\* per owning environment.
C7_DuplicatesExact ==
    an_phase \in {"duplicates", "both"}
    => /\ DOMAIN an_duplicates = {n \in AllNames : Cardinality(Owners(n)) >= 2}
       /\ \A n \in DOMAIN an_duplicates :
            /\ Len(an_duplicates[n]) = Cardinality(Owners(n))
            /\ {an_duplicates[n][k][2] : k \in 1..Len(an_duplicates[n])} = Owners(n)

\* C8: get_version_conflicts returns exactly the case-folded names installed
\* in at least 2 distinct versions, each mapped to the set of all its
\* versions; a name whose installs all have one version is not returned.
C8_ConflictsExact ==
    an_phase \in {"conflicts", "both"}
    => /\ DOMAIN an_conflicts = {n \in AllNames : Cardinality(VersionsOf(n)) >= 2}
       /\ \A n \in DOMAIN an_conflicts : an_conflicts[n] = VersionsOf(n)

\* one name in conflict, and another name installed twice in one version
C8_Witness ==
    /\ an_phase = "both"
    /\ DOMAIN an_conflicts # {}
    /\ DOMAIN an_duplicates \ DOMAIN an_conflicts # {}

\* the canonical paths of the records of a result, in order
VenvIdentities == [i \in DOMAIN dv_venvs |-> realpath(dv_venvs[i].path)]
InterpreterIdentities == [i \in DOMAIN dv_interpreters |-> realpath(dv_interpreters[i])]
Injective(s) == \A i, j \in DOMAIN s : s[i] = s[j] => i = j

\* the part of C9 that is about find_python_interpreters alone
InterpretersDistinct == dv_phase \in {"interpreters", "both"} => Injective(InterpreterIdentities)

\* C9: in the result of find_venvs and in the result of
\* find_python_interpreters no two records denote the same canonical
\* (symlink-resolved, absolute) path, whichever sources reached the entity and
\* under whatever spelling.
C9_DedupByIdentity ==
    /\ dv_phase \in {"venvs", "both"} => Injective(VenvIdentities)
    /\ dv_phase \in {"interpreters", "both"} => Injective(InterpreterIdentities)

\* the number of directory levels of path p below the scan root
ScanLevel(p) == Len(abspath(p)) - Len(abspath(dv_scan_path))
ScanFound == {dv_venvs[i].path : i \in {k \in DOMAIN dv_venvs : dv_venvs[k].source = "scan"}}
FoundPaths == {dv_venvs[i].path : i \in DOMAIN dv_venvs}

\* C10: the recursive scan of find_venvs with max_depth = d rooted at R lists
\* no directory more than d levels below R and reports an environment k
\* levels below R only if 1 <= k <= d + 1; with d = 1 an environment R/a/.venv
\* below a plain directory R/a is found and R/a/b/.venv is not.
C10_BoundedScanDepth ==
    dv_phase \in {"venvs", "both"} =>
        LET R == dv_scan_path
            Ra == Append(R, <<"a">>)
            Rav == Append(Ra, <<".", "v", "e", "n", "v">>)
            Rabv == Append(Append(Ra, <<"b">>), <<".", "v", "e", "n", "v">>)
        IN  /\ \A p \in dv_listed : ScanLevel(p) >= 0 /\ ScanLevel(p) <= dv_max_depth
            /\ \A p \in ScanFound : ScanLevel(p) >= 1 /\ ScanLevel(p) <= dv_max_depth + 1
            /\ (dv_max_depth = 1 /\ isdir(Ra) /\ Ra \notin DOMAIN dv_links
                    /\ ~is_venv(Ra) /\ is_venv(Rav))
                => abspath(Rav) \in FoundPaths
            /\ dv_max_depth = 1 => abspath(Rabv) \notin ScanFound

C10_Witness ==
    /\ dv_phase = "venvs"
    /\ dv_max_depth = 1
    /\ dv_scan_path = HOME
    /\ <<<<"h">>, <<"a">>>> \in dv_listed
    /\ <<<<"h">>, <<"a">>, <<".", "v", "e", "n", "v">>>> \in ScanFound
    /\ <<<<"h">>, <<"a">>, <<"b">>, <<".", "v", "e", "n", "v">>>> \in dv_marked
    /\ <<<<"h">>, <<"a">>, <<"b">>, <<".", "v", "e", "n", "v">>>> \notin FoundPaths

\* the ends of the external process after which no data can be returned
ProbeFailed ==
    \/ pr_outcome.ends # "exit0"
    \/ pr_op = "probe_packages" /\ pr_outcome.stdout # "packages"
    \/ pr_op = "get_version" /\ pr_outcome.stdout = "empty"

\* C11: for every outcome of the external process (non-zero exit, timeout,
\* missing executable, OS error on spawn, output that is not valid JSON, valid
\* JSON of an unexpected shape) get-version, probe_packages and
\* uninstall_package return unknown / failure and never raise into their caller.
C11_ProbeFailSoft ==
    pr_op \in {"get_version", "probe_packages", "uninstall_package"} =>
        /\ ~pr_raised
        /\ (pr_has_python /\ ProbeFailed
                /\ ~(pr_op = "probe_packages" /\ pr_loaded))
            => pr_ret \in {"unknown", "False"}

\* names the scan passes over: hidden and not a project environment name, or
\* on the exclude list
SkippedName(name) ==
    \/ name[1] = "." /\ \A q \in 1..Len(PROJECT_VENV_NAMES) : name # PROJECT_VENV_NAMES[q]
    \/ name \in SCAN_EXCLUDED

\* directory d lies below the resolved scan root, within the depth bound, and
\* the way down to it passes no skipped name, no environment and no directory
\* whose listing fails
ReadableBranch(d) ==
    LET R == realpath(dv_scan_path)
        n == Len(R)
    IN  /\ R \in Dirs
        /\ Len(d) > n
        /\ SubSeq(d, 1, n) = R
        /\ Len(d) - n <= dv_max_depth + 1
        /\ \A k \in (n + 1)..Len(d) : ~SkippedName(d[k])
        /\ \A k \in (n + 1)..(Len(d) - 1) :
              /\ SubSeq(d, 1, k) \notin dv_marked
              /\ SubSeq(d, 1, k) # dv_fault.dir
        /\ dv_fault.kind # "none" => R # dv_fault.dir

\* the spelling under which the scan reports directory d
ScanSpelling(d) ==
    abspath(dv_scan_path)
        \o SubSeq(d, Len(realpath(dv_scan_path)) + 1, Len(d))

\* C12: during find_venvs a permission error or any other OS error on one
\* directory is swallowed: the scan returns normally and still reports every
\* environment reachable through the readable branches.
C12_DiscoveryErrorIsolation ==
    /\ dv_phase # "raised"
    /\ dv_phase \in {"venvs", "both"} =>
          \A d \in dv_marked : ReadableBranch(d) => ScanSpelling(d) \in FoundPaths

\* the part of C12 that holds: what a scan that returns reports
ReportsReadableBranches ==
    dv_phase \in {"venvs", "both"} =>
        \A d \in dv_marked : ReadableBranch(d) => ScanSpelling(d) \in FoundPaths

\* a delete batch is confirmed in this step / an uninstall batch is: only
\* _confirm_delete and _confirm_uninstall read an answer
ConfirmedDelete ==
    /\ pc = "getch"
    /\ mode = "delete"
    /\ selected_items # {}
    /\ Affirmative(response')
ConfirmedUninstall ==
    /\ pc = "getch"
    /\ mode = "package"
    /\ selected_items # {}
    /\ selected_venv # NoVenv
    /\ Affirmative(response')

\* the environments a confirmed delete batch has to attempt
DeleteTargets ==
    IF current_view # "venvs" THEN {}
    ELSE {venvs[idx + 1] : idx \in {i \in selected_items :
                                i < Len(venvs) /\ ~is_system_path(ENVS[venvs[i + 1]].path)}}

\* the package positions a confirmed uninstall batch has to attempt
UninstallTargets == {i \in selected_items : i < Len(packages[selected_venv])}

\* every target of the batch of this step is attempted exactly once
DeleteVisitsAll ==
    /\ Range(rmtree_calls') = DeleteTargets
    /\ Len(rmtree_calls') = Cardinality(DeleteTargets)
UninstallVisitsAll ==
    /\ Range(uninstall_calls') = {packages[selected_venv][i + 1].name : i \in UninstallTargets}
    /\ Len(uninstall_calls') = Cardinality(UninstallTargets)

\* the part of C13 about the items: no failure or skip keeps another selected
\* item from being attempted
BatchVisitsEveryItem ==
    [][/\ ConfirmedDelete => DeleteVisitsAll
       /\ ConfirmedUninstall => UninstallVisitsAll]_vars

\* C13: once a delete or uninstall batch is confirmed every selected index is
\* visited exactly once, the failure or skipping of one item never prevents
\* another from being attempted, and the batch ends with the event loop still
\* running.
C13_BatchRunsToCompletion ==
    [][/\ ConfirmedDelete => (DeleteVisitsAll /\ pc' = "draw")
       /\ ConfirmedUninstall => (UninstallVisitsAll /\ pc' = "draw")]_vars

\* the records that leave the inventory in this step
RemovedRecords == Range(venvs) \ Range(venvs')

\* C14: an environment record leaves venvs if and only if a confirmed delete
\* batch successfully deleted its directory; a failed, skipped or cancelled
\* delete and every other event leave the records unchanged; the selection is
\* empty after every confirmed batch.
C14_InventoryLifecycle ==
    [][/\ venvs' = SelectSeq(venvs, LAMBDA e : e \notin RemovedRecords)
       /\ RemovedRecords = fs_dirs \ fs_dirs'
       /\ RemovedRecords \subseteq Range(rmtree_calls')
       /\ RemovedRecords # {} => ConfirmedDelete
       /\ (ConfirmedDelete \/ ConfirmedUninstall) => selected_items' = {}]_vars

\* a confirmed delete batch has removed the record of one environment and
\* kept the record of another whose shutil.rmtree failed
C14_Witness ==
    /\ Affirmative(response)
    /\ selected_items = {}
    /\ batch_count >= 1
    /\ \E e \in Range(rmtree_calls) : e \notin Range(venvs) /\ e \notin fs_dirs
    /\ \E e \in Range(rmtree_calls) : e \in Range(venvs) /\ e \in fs_dirs

\* C15: after a confirmed uninstall batch the package cache of the owning
\* environment is invalidated: while the program runs on, the cache counts as
\* loaded only if a probe has succeeded after the batch, so that it holds what
\* is installed after the batch and not the list from before it.
C15_CacheInvalidatedAfterUninstall ==
    [][(ConfirmedUninstall /\ pc' # "crashed" /\ packages_loaded'[selected_venv])
       => packages'[selected_venv] = disk_packages'[selected_venv]]_vars

\* the delete part of C16
DeleteCountFaithful ==
    [][ConfirmedDelete
       => /\ batch_total' = Cardinality(selected_items)
          /\ batch_count' = Cardinality(fs_dirs \ fs_dirs')]_vars

\* C16: at the end of a confirmed delete or uninstall batch the reported
\* "N/M" has M equal to the number of selected items and N equal to the number
\* of items whose delete / uninstall succeeded; a failed item is not counted
\* in N.
C16_AggregateResultFaithful ==
    [][/\ ConfirmedDelete
          => /\ batch_total' = Cardinality(selected_items)
             /\ batch_count' = Cardinality(fs_dirs \ fs_dirs')
       /\ ConfirmedUninstall
          => /\ batch_total' = Cardinality(selected_items)
             /\ batch_count' = Len(disk_packages[selected_venv])
                                  - Len(disk_packages'[selected_venv])]_vars

\* the tag the one ordered rule list gives a path: pyenv, asdf, conda family,
\* homebrew, pipx, poetry, pipenv/virtualenvs, hatch, pdm, uv, then the
\* fallback of the class
OrderedRuleTag(path, is_interpreter) ==
    LET p == Lower(path)
    IN  IF Contains(p, <<".", "p", "y", "e", "n", "v">>) THEN <<"p", "y", "e", "n", "v">>
        ELSE IF Contains(p, <<".", "a", "s", "d", "f">>) THEN <<"a", "s", "d", "f">>
        ELSE IF Contains(p, <<"c", "o", "n", "d", "a">>) \/ Contains(p, <<"m", "i", "n", "i", "c", "o", "n", "d", "a">>)
                \/ Contains(p, <<"a", "n", "a", "c", "o", "n", "d", "a">>) THEN <<"c", "o", "n", "d", "a">>
        ELSE IF Contains(p, <<"h", "o", "m", "e", "b", "r", "e", "w">>) \/ Contains(p, <<"c", "e", "l", "l", "a", "r">>) THEN <<"h", "o", "m", "e", "b", "r", "e", "w">>
        ELSE IF Contains(p, <<"p", "i", "p", "x">>) THEN <<"p", "i", "p", "x">>
        ELSE IF Contains(p, <<"p", "o", "e", "t", "r", "y">>) THEN <<"p", "o", "e", "t", "r", "y">>
        ELSE IF Contains(p, <<"v", "i", "r", "t", "u", "a", "l", "e", "n", "v", "s">>) \/ Contains(p, <<"p", "i", "p", "e", "n", "v">>) THEN <<"p", "i", "p", "e", "n", "v">>
        ELSE IF Contains(p, <<"h", "a", "t", "c", "h">>) THEN <<"h", "a", "t", "c", "h">>
        ELSE IF Contains(p, <<"p", "d", "m">>) THEN <<"p", "d", "m">>
        ELSE IF Contains(p, <<"u", "v">>) THEN <<"u", "v">>
        ELSE IF ~is_interpreter THEN <<"v", "e", "n", "v">>
        ELSE IF is_system_path(path) THEN <<"s", "y", "s", "t", "e", "m">>
        ELSE <<"u", "n", "k", "n", "o", "w", "n">>

\* the part of C17 that holds: a path that names no manager gets the fallback
\* of its class
FallbackTag ==
    (cl_kind # "none" /\ \A k \in 1..Len(FRAGMENTS) :
                            ~Contains(Lower(cl_path), Lower(FRAGMENTS[k])))
        => cl_manager = OrderedRuleTag(cl_path, cl_kind = "interpreter")

\* C17: the manager tag of a classified path, interpreter or environment, is
\* the tag of the first matching rule of the one ordered list pyenv, asdf,
\* conda family, homebrew, pipx, poetry, pipenv/virtualenvs, hatch, pdm, uv,
\* fallback, for every combination of substrings in the path.
C17_ClassificationPriority ==
    cl_kind # "none" => cl_manager = OrderedRuleTag(cl_path, cl_kind = "interpreter")

\* the paths of the records of the written array, in the order of the array
WrittenPaths == [k \in 1..Len(ex_written) |-> ex_written[k].path]

\* whether s is in discovery order: the environments it names ascend
InDiscoveryOrder(s) == \A j, k \in 1..Len(s) : j < k => s[j] < s[k]

\* the part of C18 that holds: the array broomstick writes is the list
\* discovery returned, whatever order the probes completed in
BroomstickExportOrder ==
    (ex_phase = "written" /\ ex_args.program = "broomstick")
        => WrittenPaths = [i \in 1..ex_n |-> i]

\* C18: the array of environment records a scan export writes is in
\* discovery order, whatever order the concurrent probes completed in.
C18_ExportOrder ==
    ex_phase = "written" => InDiscoveryOrder(WrittenPaths)

\* an answer that spells y or yes, in any case
SaidYes(ans) ==
    \E w \in {<<"y">>, <<"y", "e", "s">>} :
        Len(ans) = Len(w) /\ \A i \in 1..Len(w) : LowerChar(ans[i]) = w[i]

\* C19: broomstick clean changes the file system only if a target was given
\* and exists, it is not a protected system path, --dry-run is not set, and
\* --yes was passed or the answer to the confirmation was y/yes; what it then
\* deletes is the target.  In every other case the file system is unchanged.
C19_BroomstickCleanGate ==
    [][(cn_program' = "broomstick" /\ cn_fs' # cn_fs)
       => /\ cn_argv.target # NoTarget /\ cn_argv.target # << >>
          /\ clean_exists(cn_fs, cn_argv.target)
          /\ ~is_system_path(clean_abspath(cn_argv.target))
          /\ ~cn_argv.dry_run
          /\ cn_argv.yes \/ SaidYes(cn_answer')
          /\ ~clean_exists(cn_fs', cn_argv.target)
          /\ \A p \in (cn_fs.dirs \cup cn_fs.files) \ (cn_fs'.dirs \cup cn_fs'.files) :
                StartsWith(p, clean_abspath(cn_argv.target))]_vars

\* broomstick clean of the relative target `e`, confirmed with "Yes" at the
\* prompt, has deleted /h/e
C19_Witness ==
    /\ cn_program = "broomstick"
    /\ cn_out = "deleted"
    /\ cn_argv = [target |-> <<"e">>, dry_run |-> FALSE, yes |-> FALSE]
    /\ cn_answer = <<"Y", "e", "s">>
    /\ <<"/", "h", "/", "e">> \notin cn_fs.dirs

\* what holds of pyenvhunter clean: no command line makes it change the file
\* system
PyenvhunterCleanNeverDeletes ==
    [][cn_program' = "pyenvhunter" => cn_fs' = cn_fs]_vars

\* C20: pyenvhunter clean deletes the target directory if and only if the run
\* is not a dry run and the deletion was authorized (--yes or an affirmative
\* answer) for an existing directory outside the refused system paths; and a
\* run authorized with --yes and not asked to be a dry run, on such a
\* directory, removes it unless the removal itself fails.
C20_PyenvhunterCleanDeletes ==
    [][cn_program' = "pyenvhunter"
       => LET t == clean_abspath(cn_argv.target)
              allowed == /\ clean_isdir(cn_fs, cn_argv.target)
                         /\ ~hc_refused(t)
                         /\ cn_argv.yes \/ SaidYes(Strip(cn_answer'))
          IN  /\ cn_fs' # cn_fs => (~cn_argv.dry_run /\ allowed)
              /\ (~cn_argv.dry_run /\ cn_argv.yes /\ allowed /\ cn_out' # "not_removed")
                    => ~clean_exists(cn_fs', cn_argv.target)]_vars

\* the number of 'q' events that end the loop from a view: one per level of
\* the navigation
QuitRank ==
    CASE current_view = "venv_detail" -> 4
      [] current_view \in {"interpreters", "venvs", "analysis"} -> 3
      [] current_view = "category_select" -> 2
      [] OTHER -> 1

\* the state the loop starts in
StartsEmpty ==
    /\ mode = NoMode /\ current_view = "mode_select" /\ cursor = 0
    /\ selected_items = {} /\ breadcrumb = << >>
    /\ ~search_mode /\ search_query = << >> /\ filtered_items = << >>

\* the part of C21 that holds: the loop is left by a quit only from
\* mode_select, and every 'q' that does not end the loop lowers the number of
\* levels left, which no drawing raises
QuitLeavesFromModeSelect ==
    /\ StartsEmpty
    /\ [][(pc # "done" /\ pc' = "done") => current_view = "mode_select"]_vars
    /\ [][(pc = "getch" /\ KeyQuit) => (pc' = "done" \/ QuitRank' < QuitRank)]_vars
    /\ [][(pc = "draw" /\ Draw) => QuitRank' <= QuitRank]_vars

\* C21: the loop starts in mode_select with mode none, cursor 0, empty
\* selection, empty breadcrumb and no search; it ends only from the
\* mode_select view; and from every reachable state at most 4 consecutive 'q'
\* events end it: every 'q' ends the loop or leaves fewer levels, and the
\* drawing between two events neither adds a level nor ends the loop.
C21_TerminationByQuit ==
    /\ StartsEmpty
    /\ [][(pc \in {"draw", "getch"} /\ pc' \notin {"draw", "getch"})
             => current_view = "mode_select"]_vars
    /\ [][(pc = "getch" /\ KeyQuit) => (pc' = "done" \/ QuitRank' < QuitRank)]_vars
    /\ [][(pc = "draw" /\ Draw) => (pc' = "getch" /\ QuitRank' <= QuitRank)]_vars

\* the states in which 'd' may delete and 'u' may uninstall, given the answer
\* the event reads at its prompt
DeleteGate == mode = "delete" /\ selected_items # {} /\ SaidYes(response')
UninstallGate ==
    /\ mode = "package" /\ current_view = "venv_detail" /\ selected_venv # NoVenv
    /\ selected_items # {} /\ SaidYes(response')

\* C22: shutil.rmtree is called on an environment only by an event in mode
\* delete, with a non-empty selection that holds the environment's index and
\* after an answer of y/yes; pip uninstall is called only by an event in mode
\* package, in venv_detail with a bound environment, a non-empty selection and
\* after an answer of y/yes.  In every other state the keys 'd' and 'u' change
\* nothing: no step that changes a field, a cache or the disk is one of theirs.
C22_DestructiveGate ==
    [][pc = "getch"
       => /\ rmtree_calls' # << >>
               => /\ DeleteGate
                  /\ \A k \in 1..Len(rmtree_calls') :
                        \E idx \in selected_items :
                            idx < Len(venvs) /\ venvs[idx + 1] = rmtree_calls'[k]
          /\ uninstall_calls' # << >> => UninstallGate
          /\ (~DeleteGate /\ ~UNCHANGED <<tui_fields, env_fields, world>>)
               => ~KeyDelete
          /\ (~UninstallGate /\ ~UNCHANGED <<tui_fields, env_fields, world>>)
               => ~KeyUninstall]_vars

\* a confirmed uninstall batch has called pip uninstall for two marked packages
C22_Witness ==
    /\ mode = "package"
    /\ current_view = "venv_detail"
    /\ SaidYes(response)
    /\ Len(uninstall_calls) = 2
    /\ batch_selected = {0, 1}

\* the environments at the selected positions when the batch is confirmed
SelectedRecords == {venvs[i + 1] : i \in {j \in selected_items : j < Len(venvs)}}

\* C23: in a confirmed delete batch every record removed, and every directory
\* handed to shutil.rmtree, is the environment that was at a selected index
\* when the batch was confirmed, whatever items fail or are skipped; the
\* environment at an unselected index keeps its record.
C23_DeleteIndexValidity ==
    [][ConfirmedDelete
       => /\ RemovedRecords \subseteq SelectedRecords
          /\ Range(rmtree_calls') \subseteq SelectedRecords
          /\ fs_dirs \ fs_dirs' \subseteq SelectedRecords
          /\ \A i \in 0..(Len(venvs) - 1) :
                i \notin selected_items => venvs[i + 1] \in Range(venvs')]_vars

\* a confirmed delete batch over the positions around an unselected one
\* removed the first record, failed on the last and kept the one between
C23_Witness ==
    /\ mode = "delete"
    /\ current_view = "venvs"
    /\ SaidYes(response)
    /\ batch_selected = {0, 2}
    /\ rmtree_calls = <<3, 1>>
    /\ batch_count = 1
    /\ venvs = <<2, 3>>

\* this step is a call of probe_packages on the object
ProbePackagesCall == pr_op' = "probe_packages" /\ pr_calls' = pr_calls + 1

\* the part of C24 that holds: a non-forced probe_packages of a loaded
\* environment runs no process and leaves the cache as it is
LoadedProbeIsNoOp ==
    [][(ProbePackagesCall /\ pr_loaded /\ ~pr_force')
       => (~pr_spawned' /\ ~pr_raised' /\ UNCHANGED <<pr_packages, pr_loaded>>)]_vars

\* C24: probe_packages of a loaded environment without force runs no external
\* process and leaves the cache unchanged; every other call runs the
\* package-list probe and, when it returns, the environment is marked loaded,
\* so that a later non-forced call runs no process again.
C24_ProbeCaching ==
    [][ProbePackagesCall
       => IF pr_loaded /\ ~pr_force'
          THEN ~pr_spawned' /\ UNCHANGED <<pr_packages, pr_loaded>>
          ELSE pr_spawned' /\ (~pr_raised' => pr_loaded')]_vars

\* the directories above path p, p itself left out
Ancestors(p) == {SubSeq(p, 1, k) : k \in 1..(Len(p) - 1)}

\* the part of C25 that holds: every directory the recursive scan lists, the
\* scan root apart, is no environment, and no reported environment lies in an
\* environment that is below the scan root
ScanDescendsIntoNoEnvironment ==
    dv_phase \in {"venvs", "both"} =>
        /\ \A p \in dv_listed : is_venv(p) => abspath(p) = abspath(dv_scan_path)
        /\ \A p \in ScanFound :
              \A q \in Ancestors(p) : (is_venv(q) /\ ScanLevel(q) >= 0) => ScanLevel(q) = 0

\* C25: the recursive scan lists no directory that itself qualifies as an
\* environment, so no environment it reports lies inside the directory of
\* another environment.
C25_EnvironmentsAreLeaves ==
    dv_phase \in {"venvs", "both"} =>
        /\ \A p \in dv_listed : ~is_venv(p)
        /\ \A p \in ScanFound : \A q \in Ancestors(p) : ~is_venv(q)

\* the fixed reverse table of back, one level per event
BackTable ==
    CASE current_view = "venv_detail" ->
            current_view' = "venvs" /\ selected_venv' = NoVenv /\ pc' = "draw"
      [] current_view \in {"interpreters", "venvs", "analysis"} ->
            current_view' = "category_select" /\ pc' = "draw"
      [] current_view = "category_select" ->
            current_view' = "mode_select" /\ mode' = NoMode /\ pc' = "draw"
      [] OTHER -> pc' = "done"

\* the part of C26 that holds: the key 'q' follows the table
QuitFollowsBackTable == [][(pc = "getch" /\ KeyQuit) => BackTable]_vars

\* C26: back goes one level per event by the fixed table venv_detail -> venvs
\* (unbinding the environment), interpreters / venvs / analysis ->
\* category_select, category_select -> mode_select (mode none), mode_select ->
\* end of the loop; for the key 'q' and for ESC when no search is active.
C26_BackTable ==
    [][(pc = "getch" /\ (KeyQuit \/ (~search_mode /\ KeyEscape))) => BackTable]_vars

\* this step is a back transition: 'q', or ESC with no search active, in a
\* view that has a level above it
BackTransition ==
    /\ pc = "getch"
    /\ current_view # "mode_select"
    /\ KeyQuit \/ (~search_mode /\ KeyEscape)

\* the part of C27 that holds: after a back transition the selection is empty
BackClearsSelection == [][BackTransition => selected_items' = {}]_vars

\* C27: after every back transition the selection is empty and the search is
\* inactive: search_mode false, empty query, empty filtered_items.
C27_BackClearsLevelState ==
    [][BackTransition
       => /\ selected_items' = {}
          /\ ~search_mode' /\ search_query' = << >> /\ filtered_items' = << >>]_vars

\* C28: in every reachable state the view analysis implies mode explore (the
\* spec's analyze); in the other modes the cursor of category_select stays on
\* the first two categories, and Enter there enters interpreters or venvs,
\* pushes exactly one breadcrumb label and resets cursor and scroll to 0.
C28_ModeGatesCategories ==
    /\ [](current_view = "analysis" => mode = "explore")
    /\ []((current_view = "category_select" /\ mode # "explore") => cursor \in {0, 1})
    /\ [][(pc = "getch" /\ current_view = "category_select" /\ mode # "explore"
              /\ KeyEnter)
             => /\ current_view' = (IF cursor = 0 THEN "interpreters" ELSE "venvs")
                /\ \E label \in {<<"I", "n", "t", "e", "r", "p", "r", "e", "t", "e", "r", "s">>, <<"V", "i", "r", "t", "u", "a", "l", " ", "E", "n", "v", "i", "r", "o", "n", "m", "e", "n", "t", "s">>} :
                      breadcrumb' = Append(breadcrumb, label)
                /\ cursor' = 0 /\ scroll_offset' = 0
                /\ mode' = mode]_vars

\* Enter on the second category in mode delete has entered the venvs view
C28_Witness ==
    /\ pc = "draw"
    /\ mode = "delete"
    /\ current_view = "venvs"
    /\ breadcrumb = << <<"V", "i", "r", "t", "u", "a", "l", " ", "E", "n", "v", "i", "r", "o", "n", "m", "e", "n", "t", "s">> >>
    /\ cursor = 0 /\ scroll_offset = 0
    /\ selected_items = {}
    /\ ~search_mode
    /\ response = NoPrompt

\* C29: the view venv_detail is entered only by Enter on the venvs view in
\* mode list, explore (the spec's analyze) or package, and that step resets
\* cursor and scroll to 0 and clears the selection; in mode delete Enter on the
\* venvs view changes nothing; so venv_detail is never shown in mode delete.
C29_DrillInGating ==
    /\ [](current_view = "venv_detail" => mode \in {"list", "explore", "package"})
    /\ [][(current_view' = "venv_detail" /\ current_view # "venv_detail")
             => /\ current_view = "venvs"
                /\ mode \in {"list", "explore", "package"}
                /\ mode' = mode
                /\ cursor' = 0 /\ scroll_offset' = 0
                /\ selected_items' = {}
                /\ KeyEnter]_vars
    /\ [][(pc = "getch" /\ current_view = "venvs" /\ mode = "delete" /\ KeyEnter)
             => UNCHANGED <<tui_fields, env_fields, world>>]_vars

\* Enter on the second row of the venvs view in mode package has opened the
\* detail of that environment with cursor and scroll back at 0
C29_Witness ==
    /\ pc = "draw"
    /\ mode = "package"
    /\ current_view = "venv_detail"
    /\ Len(venvs) >= 2
    /\ selected_venv = venvs[2]
    /\ Len(breadcrumb) = 2
    /\ cursor = 0 /\ scroll_offset = 0
    /\ selected_items = {}
    /\ uninstall_calls = << >>

\* the positions at which two selections differ
SelectionDifference(S, T) == (S \ T) \cup (T \ S)

\* C30: the space key changes the selection only in modes delete and package
\* and only on the list views, where it flips exactly the position under the
\* cursor and moves nothing else, so that a second toggle of the same position
\* restores the selection; a non-empty selection implies mode delete or package
\* and a list view.
C30_MarkingLegality ==
    /\ [](selected_items # {}
            => mode \in {"delete", "package"} /\ current_view \in ListViews)
    /\ [][(pc = "getch" /\ KeySpace)
             => IF mode \in {"delete", "package"} /\ current_view \in ListViews
                THEN /\ SelectionDifference(selected_items, selected_items') = {cursor}
                     /\ UNCHANGED <<cursor, mode, current_view>>
                ELSE UNCHANGED selected_items]_vars

\* two rows of the venvs view are marked in mode package, the cursor on the
\* second of them
C30_Witness ==
    /\ pc = "draw"
    /\ mode = "package"
    /\ current_view = "venvs"
    /\ cursor = 2
    /\ selected_items = {0, 2}
    /\ ~search_mode
    /\ uninstall_calls = << >>

\* a search was made in a list view: key '/' answered with a query
SearchStep == pc = "getch" /\ current_view \in ListViews /\ KeySearch

\* the part of C31 that holds: an empty query clears the filter and the full
\* list is presented again; a query that matches some item of the
\* interpreters or venvs view presents exactly the matching items, in
\* original order, with cursor and scroll at 0
SearchPresentsMatchesWhenAny ==
    [][SearchStep
       => IF search_mode'
          THEN /\ cursor' = 0 /\ scroll_offset' = 0
               /\ (current_view # "venv_detail"
                      /\ apply_search_filter(search_query') # << >>)
                    => presented_items' = apply_search_filter(search_query')
          ELSE /\ filtered_items' = << >>
               /\ presented_items' = [k \in 1..UnfilteredLen |-> k - 1]]_vars

\* C31: after a search with a non-empty query in a list view the presented
\* list is exactly the items whose fields contain the query in lower case, in
\* original order (empty when nothing matches), and cursor and scroll are 0;
\* an empty query clears the filter and presents the full list.
C31_SearchPresentsMatches ==
    [][SearchStep
       => IF search_mode'
          THEN /\ cursor' = 0 /\ scroll_offset' = 0
               /\ presented_items' = apply_search_filter(search_query')
          ELSE /\ filtered_items' = << >>
               /\ presented_items' = [k \in 1..UnfilteredLen |-> k - 1]]_vars

\* the record of environment i that probing the environments one after
\* another gives: its package data is what its own probe ended with, unknown
\* when the probe failed, raised or was not made
SequentialRecord(i) ==
    [path |-> i, packages |-> IF ex_probe[i] = "loaded" THEN "loaded" ELSE "unknown"]

\* at most `parallel` probes are in flight, and a probe that completes
\* writes the outcome of its own environment only
ProbesAreIndependent ==
    /\ []((ex_phase = "probing" /\ ex_uses_pool)
            => Cardinality(ex_running) <= ex_args.parallel)
    /\ [][\A i \in 1..ex_n :
             ex_probe'[i] # ex_probe[i]
                => /\ i \in ex_running
                   /\ ex_completed' = Append(ex_completed, i)
                   /\ \A j \in (1..ex_n) \ {i} : ex_probe'[j] = ex_probe[j]]_vars

\* the part of C32 that holds: probes are independent, every record written
\* is the sequential record of its environment for every completion order,
\* and broomstick writes the record of every environment, a probe that raised
\* included
BulkProbeFaithfulRecords ==
    /\ ProbesAreIndependent
    /\ [](ex_phase = "written"
            => /\ \A k \in 1..Len(ex_written) :
                     /\ ex_written[k].path \in 1..ex_n
                     /\ ex_written[k] = SequentialRecord(ex_written[k].path)
                     /\ \A j \in 1..Len(ex_written) :
                           ex_written[j].path = ex_written[k].path => j = k
               /\ ex_args.program = "broomstick" => Len(ex_written) = ex_n)

\* C32: probes of a bulk scan write only their own environment's record, at
\* most `parallel` are in flight, and for every interleaving the written data
\* of every environment is that of probing one after another; a probe that
\* fails leaves its record unknown and does not affect the other probes.
C32_BulkProbeIndependence ==
    /\ ProbesAreIndependent
    /\ [](ex_phase = "written"
            => \A i \in 1..ex_n :
                  \E k \in 1..Len(ex_written) :
                      /\ ex_written[k] = SequentialRecord(i)
                      /\ \A j \in 1..Len(ex_written) : ex_written[j].path = i => j = k)

\* a confirmed batch has run in this step
BatchRan == pc = "getch" /\ batch_total' > 0

\* the part of C33 that holds: the progress line shows a number for every
\* item the batch attempts, the numbers start at 1, never decrease, never
\* skip and never pass the total, and a batch all of whose items succeed
\* shows 1, 2, .., total
ProgressCountsAttempts ==
    [][BatchRan
       => /\ Len(batch_progress') = Len(rmtree_calls') + Len(uninstall_calls')
          /\ \A k \in 1..Len(batch_progress') :
                /\ batch_progress'[k] \in 1..batch_total'
                /\ batch_progress'[k] <= k
                /\ k > 1 => batch_progress'[k] - batch_progress'[k - 1] \in {0, 1}
          /\ (batch_count' = batch_total' /\ uninstall_calls' = << >>)
                => batch_progress' = [k \in 1..batch_total' |-> k]]_vars

\* C33: in a confirmed batch over total = |selection| items the progress
\* counter is shown for every selected item, the k-th time with the value k,
\* whether the item succeeded, failed or was skipped; it is strictly
\* increasing and ends at total.
C33_RunningCounter ==
    [][BatchRan
       => /\ batch_total' = Cardinality(selected_items)
          /\ batch_progress' = [k \in 1..batch_total' |-> k]]_vars

\* the part of C34 that holds: every path find_venvs returns is a directory
\* that holds an environment marker
FindVenvsReturnsEnvironments ==
    dv_phase \in {"venvs", "both"} => \A p \in FoundPaths : is_venv(p)

\* C34: every path returned by discovery, by find_venvs of broomstick and by
\* find_envs of pyenvhunter, is a directory that holds an environment marker;
\* a child of a manager base directory without a marker is not returned.
C34_ReturnedPathsAreEnvironments ==
    /\ dv_phase \in {"venvs", "both"} => \A p \in FoundPaths : is_venv(p)
    /\ dv_phase = "envs" => \A p \in dv_envs : is_venv_dir(p)

\* every index of the filter names an item of the current view's list
FilterIndicesValid ==
    \A k \in 1..Len(filtered_items) : filtered_items[k] \in 0..(UnfilteredLen - 1)

\* the part of C35 that holds: the filter a search has just computed holds
\* valid indices only
SearchComputesValidIndices == [][SearchStep => FilterIndicesValid']_vars

\* C35: in every reachable state in which a search filter is active, every
\* index in filtered_items is a valid index into the list of the current view.
C35_FilterIndicesValid ==
    (search_mode /\ current_view \in ListViews) => FilterIndicesValid

\* Enter on the venvs view has opened the detail view in this step
DrillIn ==
    /\ pc = "getch"
    /\ current_view = "venvs"
    /\ current_view' = "venv_detail"
    /\ KeyEnter

\* the part of C36 that holds: without a search filter the environment bound
\* is the one on the cursor row, and the breadcrumb pushed is the project
\* name of the environment bound
DrillInBindsCursorRowUnfiltered ==
    [][DrillIn
       => /\ breadcrumb' = Append(breadcrumb, ENVS[selected_venv'].project_name)
          /\ ~search_mode => selected_venv' = venvs[cursor + 1]]_vars

\* C36: Enter on the venvs view with the cursor on visible row p binds the
\* environment displayed on that row, venvs[F[p]] under a search filter F and
\* venvs[p] otherwise, and pushes its project name on the breadcrumb.
C36_DrillInBindsDisplayed ==
    [][DrillIn
       => /\ cursor < Len(presented_items)
          /\ presented_items[cursor + 1] < Len(venvs)
          /\ selected_venv' = venvs[presented_items[cursor + 1] + 1]
          /\ breadcrumb' = Append(breadcrumb, ENVS[selected_venv'].project_name)]_vars

\* a confirmed batch has ended in this step and the event loop goes on
BatchEnded == (ConfirmedDelete \/ ConfirmedUninstall) /\ pc' = "draw"

\* the part of C37 that holds: after a batch the cursor is in [0, max(0, N'-1)]
CursorClampedAfterBatch ==
    [][BatchEnded
       => LET N == IF mode = "delete" THEN Len(venvs')
                   ELSE Len(packages'[selected_venv])
          IN  cursor' \in 0..Max(0, N - 1)]_vars

\* C37: immediately after a confirmed delete batch that leaves N' environments,
\* or an uninstall batch that leaves N' packages, cursor is in [0, max(0, N'-1)],
\* scroll_offset in [0, max(0, N'-H)] and scroll_offset <= cursor <=
\* scroll_offset + H - 1.
C37_CursorScrollAfterBatch ==
    [][BatchEnded
       => LET N == IF mode = "delete" THEN Len(venvs')
                   ELSE Len(packages'[selected_venv])
              H == visible_height
          IN  /\ cursor' \in 0..Max(0, N - 1)
              /\ scroll_offset' \in 0..Max(0, N - H)
              /\ cursor' \in scroll_offset'..(scroll_offset' + H - 1)]_vars

\* the number of breadcrumb labels that belongs to a view
BreadcrumbDepth(view) ==
    CASE view \in {"mode_select", "category_select"} -> 0
      [] view \in {"interpreters", "venvs", "analysis"} -> 1
      [] view = "venv_detail" -> 2

\* C38: an environment is bound exactly when the view is venv_detail; the
\* breadcrumb has 0 labels in mode_select and category_select, 1 in
\* interpreters, venvs and analysis, 2 in venv_detail; and the environment
\* bound is a record of the inventory.
C38_BoundEnvironmentConsistency ==
    /\ (selected_venv # NoVenv) <=> (current_view = "venv_detail")
    /\ Len(breadcrumb) = BreadcrumbDepth(current_view)
    /\ selected_venv # NoVenv => \E k \in 1..Len(venvs) : venvs[k] = selected_venv

\* after a delete removed the first environment, the last one of the
\* shortened inventory is bound in mode package
C38_Witness ==
    /\ mode = "package"
    /\ current_view = "venv_detail"
    /\ venvs = <<2, 3>>
    /\ selected_venv = 3
    /\ Len(breadcrumb) = 2
    /\ pc = "getch"

\* the part of C39 that holds: the selection is empty in mode_select and
\* category_select and after every change of view, and in a view whose list
\* is not empty every selected index names an item of that list
SelectionLocalToNonEmptyList ==
    /\ [](current_view \in {"mode_select", "category_select"} => selected_items = {})
    /\ [](UnfilteredLen > 0 => \A i \in selected_items : i \in 0..(UnfilteredLen - 1))
    /\ [][current_view' # current_view => selected_items' = {}]_vars

\* C39: every index in selected_items is a valid index of the current view's
\* unfiltered list, also when that list is empty; the selection is empty in
\* mode_select and category_select and immediately after every change of view.
C39_SelectionIndicesValid ==
    /\ [](\A i \in selected_items : i \in 0..(UnfilteredLen - 1))
    /\ [](current_view \in {"mode_select", "category_select"} => selected_items = {})
    /\ [][current_view' # current_view => selected_items' = {}]_vars

====
